---- MODULE Spec2Model ----
(***************************************************************************)
(* Model of the meeting-notes-handler core: the series tracker             *)
(* (series_tracker.py), the smart extractor (smart_extractor.py) with the  *)
(* document classifier (document_classifier.py), and the content cache     *)
(* (content_cache.py).                                                     *)
(*                                                                         *)
(* Text values are sequences of one-character strings; a Python dict is a  *)
(* record or, where insertion order matters, a sequence of records.        *)
(***************************************************************************)
EXTENDS Integers, Sequences, FiniteSets, TLC

VARIABLES
    series_registry,   \* MeetingSeriesTracker.series_registry (insertion-ordered dict)
    registry_file,     \* contents of .meeting_series_registry.json, or NoFile
    ret,               \* outcome of the last tracker call
    files,             \* meeting files of the notes directory: path -> text
    result,            \* last outcome of extract_new_content_only
    cache_files,       \* files under .meeting_content_cache: <<series, date, ext>> -> text
    use_compression,   \* MeetingContentCache.use_compression
    cache_ret,         \* outcome of the last cache call
    signatures,        \* the two ContentSignature values at hand: old and new
    diff,              \* outcome of the last ContentHasher or DiffEngine call
    classified,        \* inputs and outcome of the last classify_document call
    instances          \* tracker instances opened on the notes directory

trackerVars == <<series_registry, registry_file, ret>>
extractorVars == <<files, result>>
cacheVars == <<cache_files, use_compression, cache_ret>>
diffVars == <<signatures, diff>>
restVars == <<signatures, diff, classified, instances>>
vars == <<series_registry, registry_file, ret, files, result,
          cache_files, use_compression, cache_ret,
          signatures, diff, classified, instances>>

None == "None"
NoFile == "NoFile"
\* a file that exists and whose open() or read() raises OSError or
\* UnicodeDecodeError
Unreadable == "Unreadable"

(***************************************************************************)
(* Bounds of the model.                                                    *)
(***************************************************************************)
MaxSeries == 2      \* series the registry may hold
MaxMeetings == 1    \* meeting references per series
MaxDate == 1        \* distinct calendar dates of occurrences

(***************************************************************************)
(* Generic helpers.                                                        *)
(***************************************************************************)
Range(s) == {s[i] : i \in DOMAIN s}

RECURSIVE SelectIdx(_, _, _)
\* indices i of s, ascending, with P[i] true -- as a sequence
SelectIdx(n, keep, i) ==
    IF i > n THEN <<>>
    ELSE (IF i \in keep THEN <<i>> ELSE <<>>) \o SelectIdx(n, keep, i + 1)

\* the subsequence of s at the indices in keep, in order
Pick(s, keep) == [k \in 1..Len(SelectIdx(Len(s), keep, 1)) |->
                     s[SelectIdx(Len(s), keep, 1)[k]]]

IsPrefix(s, t) == Len(s) <= Len(t) /\ \A i \in 1..Len(s) : s[i] = t[i]

(***************************************************************************)
(* Meeting metadata.  A title is a sequence of lower-case words; a start   *)
(* time is a calendar date and a weekday/clock slot, held either as a      *)
(* datetime object or as an ISO-format string.                             *)
(***************************************************************************)
NoiseWords == {"weekly", "daily", "monthly", "meeting", "sync", "standup",
               "demo", "review", "planning", "retrospective", "retro",
               "sprint", "scrum", "session", "call", "discussion"}

NumberWords == {"29", "30"}
PunctuationWords == {"-"}

MeetingTitles == {
    <<"weekly", "standup", "-", "week", "29">>,
    <<"alpha", "beta", "gamma", "delta", "sync">>,
    <<"alpha", "beta", "gamma", "delta", "omega">> }

Organizers == {"alice@company.com", "bob@company.com"}
Slots == {"TUE-09:00", "TUE-14:00"}
Forms == {"datetime", "str"}
AttendeeLists == {<<"bob@company.com", "alice@company.com">>}

StartTimes == [form : Forms, date : 1..MaxDate, slot : Slots]

\* every title for one organizer and slot; one title for the other organizers
\* and slots
Metadata ==
    {m \in [title : MeetingTitles, organizer : Organizers,
            start_time : StartTimes, attendees : AttendeeLists] :
        \/ m.organizer = "alice@company.com" /\ m.start_time.slot = "TUE-09:00"
        \/ m.title = <<"weekly", "standup", "-", "week", "29">>}

\* datetime.isoformat(): the ISO text of a timestamp
isoformat(st) == <<st.date, st.slot>>

\* datetime.now().isoformat() as add_meeting_to_series reads it
Nows == {<<0, "NOW">>}

(***************************************************************************)
(* MeetingSeriesTracker                                                    *)
(***************************************************************************)
RECURSIVE StripNumbered(_)
\* title_cleanup_patterns: "week <n>" and "sprint <n>" are removed
StripNumbered(words) ==
    IF words = <<>> THEN <<>>
    ELSE IF /\ Len(words) >= 2
            /\ words[1] \in {"week", "sprint"}
            /\ words[2] \in NumberWords
         THEN StripNumbered(SubSeq(words, 3, Len(words)))
         ELSE <<words[1]>> \o StripNumbered(Tail(words))

_normalize_title(title) ==
    LET cleaned == StripNumbered(title)
        filtered == SelectSeq(cleaned, LAMBDA w : w \notin NoiseWords)
    IN  SelectSeq(filtered, LAMBDA w : w \notin PunctuationWords)

\* md5 over the sorted attendee list: equal exactly for equal attendee sets
_generate_attendee_fingerprint(attendees) == Range(attendees)

_extract_attendee_pattern(meta) == Range(meta.attendees)

\* raises AttributeError never: both forms of start_time are parsed
_generate_fingerprint(meta) ==
    [normalized_title |-> _normalize_title(meta.title),
     organizer |-> meta.organizer,
     time_pattern |-> meta.start_time.slot,
     attendee_fingerprint |-> _generate_attendee_fingerprint(meta.attendees),
     raw_title |-> meta.title]

\* readable part plus an md5 suffix of the whole fingerprint string
_generate_series_id(fp) ==
    <<fp.normalized_title, fp.organizer, fp.time_pattern, fp.attendee_fingerprint>>

\* token Jaccard as the pair <<numerator, denominator>>
_calculate_title_similarity(title1, title2) ==
    IF title1 = <<>> \/ title2 = <<>>
    THEN (IF title1 # title2 THEN <<0, 1>> ELSE <<1, 1>>)
    ELSE <<Cardinality(Range(title1) \cap Range(title2)),
           Cardinality(Range(title1) \cup Range(title2))>>

\* sim >= 0.8, i.e. not (num/den < 8/10)
AtLeast08(sim) == 10 * sim[1] >= 8 * sim[2]

_matches_series(fp, series_data) ==
    IF fp.organizer # series_data.organizer THEN FALSE
    ELSE IF fp.time_pattern # series_data.time_pattern THEN FALSE
    ELSE AtLeast08(_calculate_title_similarity(fp.normalized_title,
                                                series_data.normalized_title))

Keys(registry) == {registry[i].series_id : i \in DOMAIN registry}
IndexOf(registry, sid) == CHOOSE i \in DOMAIN registry : registry[i].series_id = sid
Lookup(registry, sid) == registry[IndexOf(registry, sid)]

\* dict assignment registry[sid] = rec: replaces in place or appends
DictSet(registry, sid, rec) ==
    IF sid \in Keys(registry)
    THEN [registry EXCEPT ![IndexOf(registry, sid)] = rec]
    ELSE Append(registry, rec)

\* json.load of the registry file; a missing file loads as the empty dict
_load_series_registry(file) == IF file = NoFile THEN <<>> ELSE file

\* json.dump of the whole in-memory registry
_save_series_registry(registry) == registry

\* tracker instances on one notes directory
Trackers == {"t1", "t2"}

\* first registry entry, in dict order, that matches; 0 when none does
FirstMatch(registry, fp) ==
    LET hits == {i \in DOMAIN registry : _matches_series(fp, registry[i])}
    IN  IF hits = {} THEN 0 ELSE CHOOSE i \in hits : \A j \in hits : i <= j

\* _add_meeting_to_series: start_time.isoformat() exists on a datetime only
_add_meeting_to_series(registry, idx, meta) ==
    IF meta.start_time.form = "str"
    THEN [raised |-> TRUE, registry |-> registry]
    ELSE [raised |-> FALSE,
          registry |-> [registry EXCEPT ![idx].last_seen = isoformat(meta.start_time)]]

\* identify_series: [raised, value, registry]; it never saves the registry
identify_series(registry, meta) ==
    LET fp == _generate_fingerprint(meta)
        idx == FirstMatch(registry, fp)
    IN  IF idx = 0
        THEN [raised |-> FALSE, value |-> None, registry |-> registry]
        ELSE LET upd == _add_meeting_to_series(registry, idx, meta)
             IN  [raised |-> upd.raised,
                  value |-> IF upd.raised THEN None ELSE registry[idx].series_id,
                  registry |-> upd.registry]

\* create_new_series: [value, registry]; the caller persists registry
create_new_series(registry, meta) ==
    LET fp == _generate_fingerprint(meta)
        sid == _generate_series_id(fp)
        series == [series_id |-> sid,
                   normalized_title |-> fp.normalized_title,
                   organizer |-> fp.organizer,
                   time_pattern |-> fp.time_pattern,
                   attendee_pattern |-> _extract_attendee_pattern(meta),
                   first_seen |-> isoformat(meta.start_time),
                   last_seen |-> isoformat(meta.start_time),
                   meeting_count |-> 1,
                   meetings |-> <<>>,
                   confidence |-> 1]
    IN  [value |-> sid, registry |-> DictSet(registry, sid, series)]

\* add_meeting_to_series: [saved, registry] and the value returned, None on
\* every path
add_meeting_to_series(registry, sid, path, now) ==
    IF sid \notin Keys(registry)
    THEN [saved |-> FALSE, found |-> FALSE, value |-> None, registry |-> registry]
    ELSE LET i == IndexOf(registry, sid)
         IN  IF path \in Range(registry[i].meetings)
             THEN [saved |-> FALSE, found |-> TRUE, value |-> None, registry |-> registry]
             ELSE [saved |-> TRUE, found |-> TRUE, value |-> None,
                   registry |-> [registry EXCEPT
                       ![i].meetings = Append(@, path),
                       ![i].meeting_count = Len(registry[i].meetings) + 1,
                       ![i].last_seen = now]]

(***************************************************************************)
(* Text.  A str is a sequence of one-character strings.                    *)
(***************************************************************************)
Whitespace == {" ", "\n", "\t", "\r"}

UpperCase == <<"A", "B", "C", "D", "E", "F", "G", "H", "I", "J", "K", "L", "M",
               "N", "O", "P", "Q", "R", "S", "T", "U", "V", "W", "X", "Y", "Z">>
LowerCase == <<"a", "b", "c", "d", "e", "f", "g", "h", "i", "j", "k", "l", "m",
               "n", "o", "p", "q", "r", "s", "t", "u", "v", "w", "x", "y", "z">>

UpperToLower == [c \in Range(UpperCase) |->
                    LowerCase[CHOOSE i \in 1..Len(UpperCase) : UpperCase[i] = c]]

\* str.lower()
Lower(s) == [i \in 1..Len(s) |->
                IF s[i] \in DOMAIN UpperToLower THEN UpperToLower[s[i]] ELSE s[i]]

\* str.strip(): leading and trailing whitespace removed
Strip(s) ==
    LET solid == {i \in 1..Len(s) : s[i] \notin Whitespace}
    IN  IF solid = {} THEN <<>>
        ELSE SubSeq(s, CHOOSE i \in solid : \A j \in solid : i <= j,
                       CHOOSE i \in solid : \A j \in solid : i >= j)

\* len(s.split()): the number of maximal runs of non-whitespace
WordCount(s) ==
    Cardinality({i \in 1..Len(s) :
        s[i] \notin Whitespace /\ (i = 1 \/ s[i - 1] \in Whitespace)})

StartsWithAt(s, i, prefix) ==
    /\ i + Len(prefix) - 1 <= Len(s)
    /\ \A k \in 1..Len(prefix) : s[i + k - 1] = prefix[k]

StartsWith(s, prefix) == StartsWithAt(s, 1, prefix)

\* sub in s
Contains(s, sub) == \E i \in 1..(Len(s) + 1) : StartsWithAt(s, i, sub)

RECURSIVE SplitOn(_, _)
\* s.split(sep) for a one-character separator: at least one piece
SplitOn(s, sep) ==
    LET hits == {i \in 1..Len(s) : s[i] = sep}
    IN  IF hits = {} THEN <<s>>
        ELSE LET i == CHOOSE h \in hits : \A g \in hits : h <= g
             IN  <<SubSeq(s, 1, i - 1)>> \o SplitOn(SubSeq(s, i + 1, Len(s)), sep)

SplitLines(s) == SplitOn(s, "\n")

RECURSIVE Join(_, _)
\* sep.join(parts)
Join(parts, sep) ==
    IF parts = <<>> THEN <<>>
    ELSE IF Len(parts) = 1 THEN parts[1]
    ELSE parts[1] \o sep \o Join(Tail(parts), sep)

JoinLines(parts) == Join(parts, <<"\n">>)

RECURSIVE Concat(_)
\* the concatenation of a sequence of sequences
Concat(ss) == IF ss = <<>> THEN <<>> ELSE ss[1] \o Concat(Tail(ss))

(***************************************************************************)
(* difflib.SequenceMatcher(None, a, b).ratio() for strings under the       *)
(* 200-character autojunk limit: twice the size of the matching blocks     *)
(* over the total length, as the pair <<numerator, denominator>>.          *)
(***************************************************************************)
RECURSIVE RunLen(_, _, _, _, _, _)
RunLen(a, b, i, j, ahi, bhi) ==
    IF i <= ahi /\ j <= bhi /\ a[i] = b[j]
    THEN 1 + RunLen(a, b, i + 1, j + 1, ahi, bhi)
    ELSE 0

\* the longest block of a[alo..ahi] and b[blo..bhi] as <<i, j, size>>; of the
\* longest ones, the one that starts earliest in a, then earliest in b
find_longest_match(a, b, alo, ahi, blo, bhi) ==
    LET blocks == {<<p[1], p[2], RunLen(a, b, p[1], p[2], ahi, bhi)>> :
                      p \in {q \in (alo..ahi) \X (blo..bhi) :
                                /\ a[q[1]] = b[q[2]]
                                /\ \/ q[1] = alo
                                   \/ q[2] = blo
                                   \/ a[q[1] - 1] # b[q[2] - 1]}}
        sizes == {m[3] : m \in blocks}
        longest == CHOOSE k \in sizes : \A l \in sizes : k >= l
        at_a == {m[1] : m \in {n \in blocks : n[3] = longest}}
        first_a == CHOOSE i \in at_a : \A l \in at_a : i <= l
        at_b == {m[2] : m \in {n \in blocks : n[3] = longest /\ n[1] = first_a}}
        first_b == CHOOSE j \in at_b : \A l \in at_b : j <= l
    IN  IF blocks = {} THEN <<alo, blo, 0>> ELSE <<first_a, first_b, longest>>

RECURSIVE MatchedSize(_, _, _, _, _, _)
\* get_matching_blocks: the total size of the blocks found recursively to
\* the left and to the right of the longest one
\* the blocks to the left and to the right of the longest match m
MatchedAround(a, b, alo, ahi, blo, bhi, m) ==
    IF m[3] = 0 THEN 0
    ELSE m[3] + MatchedSize(a, b, alo, m[1] - 1, blo, m[2] - 1)
              + MatchedSize(a, b, m[1] + m[3], ahi, m[2] + m[3], bhi)

MatchedSize(a, b, alo, ahi, blo, bhi) ==
    IF alo > ahi \/ blo > bhi THEN 0
    ELSE MatchedAround(a, b, alo, ahi, blo, bhi,
                       find_longest_match(a, b, alo, ahi, blo, bhi))

ratio(a, b) ==
    IF Len(a) + Len(b) = 0 THEN <<1, 1>>
    ELSE <<2 * MatchedSize(a, b, 1, Len(a), 1, Len(b)), Len(a) + Len(b)>>

\* comparisons of similarities held as <<numerator, denominator>>
Greater(x, y) == x[1] * y[2] > y[1] * x[2]
Less(x, y) == x[1] * y[2] < y[1] * x[2]

(***************************************************************************)
(* DocumentClassifier.  A regular expression is a sequence of atoms; the   *)
(* matcher tries the alternatives of an atom in re's backtracking order.   *)
(***************************************************************************)
Digits == {"0", "1", "2", "3", "4", "5", "6", "7", "8", "9"}

Lit(s) == [t |-> "lit", s |-> s]                                   \* literal text
Alt(ss) == [t |-> "alt", ss |-> ss]                                \* (?:a|b|c)
Cls(cs) == [t |-> "run", set |-> cs, neg |-> FALSE, min |-> 1, max |-> 1]
Digit == [t |-> "run", set |-> Digits, neg |-> FALSE, min |-> 1, max |-> 1]
DigitRun == [t |-> "run", set |-> Digits, neg |-> FALSE, min |-> 1, max |-> 0]
Ws == [t |-> "run", set |-> Whitespace, neg |-> FALSE, min |-> 1, max |-> 0]
AnyRun == [t |-> "run", set |-> {"\n"}, neg |-> TRUE, min |-> 0, max |-> 0]

InClass(c, atom) == (c \in atom.set) # atom.neg

RECURSIVE RunEnd(_, _, _, _)
\* the position after the longest run of atom's characters from pos (at most
\* atom.max of them when max > 0)
RunEnd(text, pos, atom, n) ==
    IF pos <= Len(text) /\ InClass(text[pos], atom) /\ (atom.max = 0 \/ n < atom.max)
    THEN RunEnd(text, pos + 1, atom, n + 1)
    ELSE pos

RECURSIVE MatchEnd(_, _, _, _)
RECURSIVE TryRun(_, _, _, _, _)
RECURSIVE TryAlt(_, _, _, _, _)

\* greedy repetition: the longest run first, then shorter ones
TryRun(pat, k, text, q, lo) ==
    IF q < lo THEN 0
    ELSE LET e == MatchEnd(pat, k + 1, text, q)
         IN  IF e # 0 THEN e ELSE TryRun(pat, k, text, q - 1, lo)

\* alternation: the first alternative that lets the rest match
TryAlt(pat, k, text, pos, n) ==
    IF n > Len(pat[k].ss) THEN 0
    ELSE LET e == IF StartsWithAt(text, pos, pat[k].ss[n])
                  THEN MatchEnd(pat, k + 1, text, pos + Len(pat[k].ss[n]))
                  ELSE 0
         IN  IF e # 0 THEN e ELSE TryAlt(pat, k, text, pos, n + 1)

\* re.match of pat[k..] at pos: the position after the match, or 0
MatchEnd(pat, k, text, pos) ==
    IF k > Len(pat) THEN pos
    ELSE CASE pat[k].t = "lit" ->
                  IF StartsWithAt(text, pos, pat[k].s)
                  THEN MatchEnd(pat, k + 1, text, pos + Len(pat[k].s))
                  ELSE 0
           [] pat[k].t = "alt" -> TryAlt(pat, k, text, pos, 1)
           [] pat[k].t = "run" ->
                  TryRun(pat, k, text, RunEnd(text, pos, pat[k], 0), pos + pat[k].min)

RECURSIVE FindallCount(_, _, _)
\* len(re.findall(pattern, text)): leftmost non-overlapping matches
FindallCount(pat, text, pos) ==
    IF pos > Len(text) + 1 THEN 0
    ELSE LET e == MatchEnd(pat, 1, text, pos)
         IN  IF e = 0 THEN FindallCount(pat, text, pos + 1)
             ELSE 1 + FindallCount(pat, text, IF e = pos THEN pos + 1 ELSE e)

ephemeral_patterns == <<
    [len |-> 19,   \* notes\s+by\s+gemini
     re |-> <<Lit(<<"n", "o", "t", "e", "s">>),
            Ws,
            Lit(<<"b", "y">>),
            Ws,
            Lit(<<"g", "e", "m", "i", "n", "i">>)>>],
    [len |-> 14,   \* gemini\s+notes
     re |-> <<Lit(<<"g", "e", "m", "i", "n", "i">>),
            Ws,
            Lit(<<"n", "o", "t", "e", "s">>)>>],
    [len |-> 23,   \* meeting\s+notes.*gemini
     re |-> <<Lit(<<"m", "e", "e", "t", "i", "n", "g">>),
            Ws,
            Lit(<<"n", "o", "t", "e", "s">>),
            AnyRun,
            Lit(<<"g", "e", "m", "i", "n", "i">>)>>],
    [len |-> 22,   \* auto.*generated.*notes
     re |-> <<Lit(<<"a", "u", "t", "o">>),
            AnyRun,
            Lit(<<"g", "e", "n", "e", "r", "a", "t", "e", "d">>),
            AnyRun,
            Lit(<<"n", "o", "t", "e", "s">>)>>],
    [len |-> 10,   \* transcript
     re |-> <<Lit(<<"t", "r", "a", "n", "s", "c", "r", "i", "p", "t">>)>>],
    [len |-> 20,   \* meeting\s+transcript
     re |-> <<Lit(<<"m", "e", "e", "t", "i", "n", "g">>),
            Ws,
            Lit(<<"t", "r", "a", "n", "s", "c", "r", "i", "p", "t">>)>>],
    [len |-> 10,   \* chat\s+log
     re |-> <<Lit(<<"c", "h", "a", "t">>),
            Ws,
            Lit(<<"l", "o", "g">>)>>],
    [len |-> 14,   \* meeting\s+chat
     re |-> <<Lit(<<"m", "e", "e", "t", "i", "n", "g">>),
            Ws,
            Lit(<<"c", "h", "a", "t">>)>>],
    [len |-> 9,   \* recording
     re |-> <<Lit(<<"r", "e", "c", "o", "r", "d", "i", "n", "g">>)>>],
    [len |-> 19,   \* meeting\s+recording
     re |-> <<Lit(<<"m", "e", "e", "t", "i", "n", "g">>),
            Ws,
            Lit(<<"r", "e", "c", "o", "r", "d", "i", "n", "g">>)>>],
    [len |-> 53,   \* \d{4}[-/]\d{2}[-/]\d{2}.*(?:notes|transcript|summary)
     re |-> <<Digit,
            Digit,
            Digit,
            Digit,
            Cls({"-", "/"}),
            Digit,
            Digit,
            Cls({"-", "/"}),
            Digit,
            Digit,
            AnyRun,
            Alt(<<<<"n", "o", "t", "e", "s">>, <<"t", "r", "a", "n", "s", "c", "r", "i", "p", "t">>, <<"s", "u", "m", "m", "a", "r", "y">>>>)>>],
    [len |-> 30,   \* (?:meeting|notes).*\d{2}:\d{2}
     re |-> <<Alt(<<<<"m", "e", "e", "t", "i", "n", "g">>, <<"n", "o", "t", "e", "s">>>>),
            AnyRun,
            Digit,
            Digit,
            Lit(<<":">>),
            Digit,
            Digit>>],
    [len |-> 15,   \* session\s+notes
     re |-> <<Lit(<<"s", "e", "s", "s", "i", "o", "n">>),
            Ws,
            Lit(<<"n", "o", "t", "e", "s">>)>>],
    [len |-> 22,   \* meeting\s+summary.*\d+
     re |-> <<Lit(<<"m", "e", "e", "t", "i", "n", "g">>),
            Ws,
            Lit(<<"s", "u", "m", "m", "a", "r", "y">>),
            AnyRun,
            DigitRun>>] >>

persistent_patterns == <<
    [len |-> 26,   \* project.*(?:plan|doc|spec)
     re |-> <<Lit(<<"p", "r", "o", "j", "e", "c", "t">>),
            AnyRun,
            Alt(<<<<"p", "l", "a", "n">>, <<"d", "o", "c">>, <<"s", "p", "e", "c">>>>)>>],
    [len |-> 17,   \* requirements.*doc
     re |-> <<Lit(<<"r", "e", "q", "u", "i", "r", "e", "m", "e", "n", "t", "s">>),
            AnyRun,
            Lit(<<"d", "o", "c">>)>>],
    [len |-> 13,   \* specification
     re |-> <<Lit(<<"s", "p", "e", "c", "i", "f", "i", "c", "a", "t", "i", "o", "n">>)>>],
    [len |-> 11,   \* design.*doc
     re |-> <<Lit(<<"d", "e", "s", "i", "g", "n">>),
            AnyRun,
            Lit(<<"d", "o", "c">>)>>],
    [len |-> 15,   \* planning.*board
     re |-> <<Lit(<<"p", "l", "a", "n", "n", "i", "n", "g">>),
            AnyRun,
            Lit(<<"b", "o", "a", "r", "d">>)>>],
    [len |-> 25,   \* sprint.*(?:board|backlog)
     re |-> <<Lit(<<"s", "p", "r", "i", "n", "t">>),
            AnyRun,
            Alt(<<<<"b", "o", "a", "r", "d">>, <<"b", "a", "c", "k", "l", "o", "g">>>>)>>],
    [len |-> 7,   \* backlog
     re |-> <<Lit(<<"b", "a", "c", "k", "l", "o", "g">>)>>],
    [len |-> 7,   \* roadmap
     re |-> <<Lit(<<"r", "o", "a", "d", "m", "a", "p">>)>>],
    [len |-> 8,   \* timeline
     re |-> <<Lit(<<"t", "i", "m", "e", "l", "i", "n", "e">>)>>],
    [len |-> 11,   \* shared.*doc
     re |-> <<Lit(<<"s", "h", "a", "r", "e", "d">>),
            AnyRun,
            Lit(<<"d", "o", "c">>)>>],
    [len |-> 9,   \* team.*doc
     re |-> <<Lit(<<"t", "e", "a", "m">>),
            AnyRun,
            Lit(<<"d", "o", "c">>)>>],
    [len |-> 15,   \* project.*status
     re |-> <<Lit(<<"p", "r", "o", "j", "e", "c", "t">>),
            AnyRun,
            Lit(<<"s", "t", "a", "t", "u", "s">>)>>],
    [len |-> 13,   \* action.*items
     re |-> <<Lit(<<"a", "c", "t", "i", "o", "n">>),
            AnyRun,
            Lit(<<"i", "t", "e", "m", "s">>)>>],
    [len |-> 14,   \* decisions.*log
     re |-> <<Lit(<<"d", "e", "c", "i", "s", "i", "o", "n", "s">>),
            AnyRun,
            Lit(<<"l", "o", "g">>)>>] >>

ephemeral_content_indicators == <<
    <<"t", "r", "a", "n", "s", "c", "r", "i", "p", "t", " ", "o", "f", " ", "m", "e", "e", "t", "i", "n", "g">>,
    <<"m", "e", "e", "t", "i", "n", "g", " ", "s", "t", "a", "r", "t", "e", "d", " ", "a", "t">>,
    <<"m", "e", "e", "t", "i", "n", "g", " ", "e", "n", "d", "e", "d", " ", "a", "t">>,
    <<"p", "a", "r", "t", "i", "c", "i", "p", "a", "n", "t", "s", " ", "j", "o", "i", "n", "e", "d">>,
    <<"g", "e", "m", "i", "n", "i", " ", "t", "o", "o", "k", " ", "n", "o", "t", "e", "s">>,
    <<"a", "u", "t", "o", "-", "g", "e", "n", "e", "r", "a", "t", "e", "d", " ", "s", "u", "m", "m", "a", "r", "y">> >>

persistent_content_indicators == <<
    <<"l", "a", "s", "t", " ", "u", "p", "d", "a", "t", "e", "d">>,
    <<"v", "e", "r", "s", "i", "o", "n", " ", "h", "i", "s", "t", "o", "r", "y">>,
    <<"e", "d", "i", "t", " ", "h", "i", "s", "t", "o", "r", "y">>,
    <<"c", "o", "n", "t", "r", "i", "b", "u", "t", "o", "r", "s", ":">>,
    <<"d", "o", "c", "u", "m", "e", "n", "t", " ", "o", "w", "n", "e", "r">>,
    <<"s", "h", "a", "r", "e", "d", " ", "w", "i", "t", "h">> >>

RECURSIVE SumSeq(_)
SumSeq(s) == IF s = <<>> THEN 0 ELSE s[1] + SumSeq(Tail(s))

\* Scores are held exactly, as multiples of 1/300.
\* _score_patterns: len(pattern) / 100 * len(matches) for each pattern
_score_patterns(text, patterns) ==
    SumSeq([i \in 1..Len(patterns) |->
               3 * patterns[i].len * FindallCount(patterns[i].re, text, 1)])

\* _score_content_indicators, times the 0.5 the caller applies: hits / 6 * 0.5
_score_content_indicators(content, indicators) ==
    25 * Cardinality({i \in 1..Len(indicators) : Contains(content, Lower(indicators[i]))})

\* _score_url_patterns, times the 0.3 the caller applies; signed
_score_url_patterns(url) ==
    IF url = <<>> THEN 0
    ELSE IF Contains(url, <<"m", "e", "e", "t", "_", "t", "n", "f", "m", "_",
                            "c", "a", "l", "e", "n", "d", "a", "r">>) THEN 180
    ELSE IF \/ Contains(url, <<"t", "r", "a", "n", "s", "c", "r", "i", "p", "t">>)
            \/ Contains(url, <<"r", "e", "c", "o", "r", "d", "i", "n", "g">>) THEN 135
    ELSE IF /\ Contains(url, <<"e", "d", "i", "t">>)
            /\ ~Contains(url, <<"s", "h", "a", "r", "i", "n", "g">>) THEN -90
    ELSE IF /\ Contains(url, <<"v", "i", "e", "w">>)
            /\ Contains(url, <<"u", "s", "p", "=", "s", "h", "a", "r", "i", "n", "g">>)
         THEN -45
    ELSE 0

\* _score_metadata, times the 0.2 the caller applies; signed
_score_metadata(metadata) ==
    (IF metadata.shared THEN -30 ELSE 0) + (IF metadata.content_length > 5000 THEN 18 ELSE 0)

Abs(x) == IF x < 0 THEN -x ELSE x

\* the aggregate scores of classify_document at "Determine classification":
\* <<ephemeral_score, persistent_score>>
AggregateScores(title, url, content, metadata) ==
    LET title_lower == Lower(title)
        content_lower == Lower(content)
        url_score == _score_url_patterns(Lower(url))
        metadata_score == _score_metadata(metadata)
        ephemeral_score ==
            _score_patterns(title_lower, ephemeral_patterns)
            + (IF content # <<>>
               THEN _score_content_indicators(content_lower, ephemeral_content_indicators)
               ELSE 0)
            + (IF url_score > 0 THEN Abs(url_score) ELSE 0)
            + (IF metadata_score > 0 THEN Abs(metadata_score) ELSE 0)
        persistent_score ==
            _score_patterns(title_lower, persistent_patterns)
            + (IF content # <<>>
               THEN _score_content_indicators(content_lower, persistent_content_indicators)
               ELSE 0)
            + (IF url_score < 0 THEN Abs(url_score) ELSE 0)
            + (IF metadata_score < 0 THEN Abs(metadata_score) ELSE 0)
    IN  <<ephemeral_score, persistent_score>>

\* min(confidence, 1.0), the confidence being score / total_score
Confidence(score, total_score) ==
    IF score > total_score THEN <<1, 1>> ELSE <<score, total_score>>

\* a Classification that leaves the type open when the scores are equal
UnknownOnTie(scores) ==
    IF scores[1] = scores[2] THEN <<"unknown", <<0, 1>>>>
    ELSE IF scores[1] > scores[2]
    THEN <<"ephemeral", Confidence(scores[1], scores[1] + scores[2])>>
    ELSE <<"persistent", Confidence(scores[2], scores[1] + scores[2])>>

\* "Determine classification": (DocumentType, confidence)
Classification(scores) ==
    IF scores[1] + scores[2] = 0 THEN <<"unknown", <<0, 1>>>>
    ELSE IF scores[1] > scores[2]
    THEN <<"ephemeral", Confidence(scores[1], scores[1] + scores[2])>>
    ELSE <<"persistent", Confidence(scores[2], scores[1] + scores[2])>>

\* classify_document: (DocumentType, confidence)
classify_document(title, url, content, metadata) ==
    Classification(AggregateScores(title, url, content, metadata))

\* classify_documents: a DocumentInfo per document, in input order
classify_documents(documents) ==
    [i \in 1..Len(documents) |->
        [title |-> documents[i].title,
         url |-> documents[i].url,
         content |-> documents[i].content,
         doc_type |-> classify_document(documents[i].title, documents[i].url,
                                        documents[i].content,
                                        documents[i].metadata)[1],
         metadata |-> documents[i].metadata,
         index |-> i - 1]] \o <<>>

(***************************************************************************)
(* SmartContentExtractor: sections and similarity.                          *)
(***************************************************************************)
HashRun == [t |-> "run", set |-> {"#"}, neg |-> FALSE, min |-> 1, max |-> 0]
WsStar == [t |-> "run", set |-> Whitespace, neg |-> FALSE, min |-> 0, max |-> 0]

\* re.match(r'^(#{1,6})\s+(.+)$', line.strip()): [level, title], level 0
\* when the line is no header
HeaderMatch(line) ==
    LET s == Strip(line)
        level == RunEnd(s, 1, HashRun, 0) - 1
        rest == RunEnd(s, level + 1, WsStar, 0)
    IN  IF level >= 1 /\ level <= 6 /\ rest > level + 1 /\ rest <= Len(s)
        THEN [level |-> level, title |-> SubSeq(s, rest, Len(s))]
        ELSE [level |-> 0, title |-> <<>>]

RECURSIVE ParseLines(_, _, _, _, _)
\* the loop of _parse_content_sections from line i on: sections holds the
\* closed sections, current the open one (a sequence of length 0 or 1)
ParseLines(lines, headers, i, sections, current) ==
    IF i > Len(lines)
    THEN sections \o [k \in 1..Len(current) |->
                         [current[k] EXCEPT !.end_line = Len(lines) - 1]]
    ELSE IF headers[i].level > 0
    THEN ParseLines(lines, headers, i + 1,
             sections \o [k \in 1..Len(current) |->
                             [current[k] EXCEPT !.end_line = i - 2]],
             <<[title |-> headers[i].title, content |-> <<>>,
                level |-> headers[i].level,
                start_line |-> i - 1, end_line |-> i - 1]>>)
    ELSE IF current # <<>>
    THEN ParseLines(lines, headers, i + 1, sections,
             <<[current[1] EXCEPT !.content =
                    IF @ # <<>> THEN @ \o <<"\n">> \o lines[i] ELSE lines[i]]>>)
    ELSE ParseLines(lines, headers, i + 1, sections, current)

_parse_content_sections(content) ==
    LET lines == SplitLines(content)
        sections == ParseLines(lines,
                               [i \in 1..Len(lines) |-> HeaderMatch(lines[i])] \o <<>>,
                               1, <<>>, <<>>)
    IN  IF sections = <<>> /\ Strip(content) # <<>>
        THEN <<[title |-> <<"C", "o", "n", "t", "e", "n", "t">>, content |-> content, level |-> 1,
                start_line |-> 0, end_line |-> Len(lines) - 1]>>
        ELSE sections

_count_sections(content) == Len(_parse_content_sections(content))

\* SmartContentExtractor._calculate_title_similarity (difflib on lower case)
extractor_calculate_title_similarity(title1, title2) ==
    IF title1 = <<>> \/ title2 = <<>>
    THEN (IF title1 # title2 THEN <<0, 1>> ELSE <<1, 1>>)
    ELSE ratio(Lower(title1), Lower(title2))

_calculate_content_similarity(content1, content2) ==
    IF content1 = <<>> \/ content2 = <<>>
    THEN (IF content1 # content2 THEN <<0, 1>> ELSE <<1, 1>>)
    ELSE ratio(content1, content2)

RECURSIVE BestByTitle(_, _, _, _, _)
\* the best-match loop shared by _find_matching_section and
\* _find_matching_previous_doc: the index of the first candidate whose title
\* similarity is strictly above every earlier one and above the threshold;
\* similarities[i] is the title similarity of candidate i
BestByTitle(similarities, i, best_match, best_similarity, threshold) ==
    IF i > Len(similarities) THEN best_match
    ELSE IF /\ Greater(similarities[i], best_similarity)
            /\ Greater(similarities[i], threshold)
    THEN BestByTitle(similarities, i + 1, i, similarities[i], threshold)
    ELSE BestByTitle(similarities, i + 1, best_match, best_similarity, threshold)

TitleSimilarities(title, candidates) ==
    [i \in 1..Len(candidates) |->
        extractor_calculate_title_similarity(title, candidates[i].title)] \o <<>>

\* index into previous_sections, 0 for None
_find_matching_section(section, previous_sections) ==
    BestByTitle(TitleSimilarities(section.title, previous_sections),
                1, 0, <<0, 1>>, <<8, 10>>)

\* index into previous_docs, 0 for None: URL equality first, then the title
_find_matching_previous_doc(current_doc, previous_docs) ==
    LET same_url == {i \in 1..Len(previous_docs) : previous_docs[i].url = current_doc.url}
    IN  IF same_url # {}
        THEN CHOOSE i \in same_url : \A j \in same_url : i <= j
        ELSE BestByTitle(TitleSimilarities(current_doc.title, previous_docs),
                         1, 0, <<0, 1>>, <<7, 10>>)

\* a section is new when no previous section matches its title or when the
\* matched section's content similarity is below 1.0 - 0.3
IsNewSection(section, previous_sections, m) ==
    IF m = 0 THEN TRUE
    ELSE Less(_calculate_content_similarity(section.content,
                                            previous_sections[m].content),
              <<7, 10>>)

NewSections(current_sections, previous_sections) ==
    Pick(current_sections,
         {i \in 1..Len(current_sections) :
             IsNewSection(current_sections[i], previous_sections,
                          _find_matching_section(current_sections[i],
                                                 previous_sections))})

_find_new_content_sections(current_content, previous_content) ==
    NewSections(_parse_content_sections(current_content),
                _parse_content_sections(previous_content))

RECURSIVE SectionParts(_)
SectionParts(sections) ==
    IF sections = <<>> THEN <<>>
    ELSE LET s == sections[1]
             header == [k \in 1..s.level |-> "#"] \o <<" ">> \o s.title
         IN  <<header>>
             \o (IF Strip(s.content) # <<>> THEN <<Strip(s.content)>> ELSE <<>>)
             \o <<<<>>>>
             \o SectionParts(Tail(sections))

_build_filtered_content(sections) == Strip(JoinLines(SectionParts(sections)))

min_new_content_words == 10

\* a faulty ChangedSections that emits the new sections however few their
\* words
AnyChangedSections(current_doc, new_sections) ==
    LET filtered_content == _build_filtered_content(new_sections)
    IN  IF new_sections = <<>> THEN <<>>
        ELSE <<[title |-> current_doc.title \o <<" ", "-", " ", "N", "e", "w", " ", "C", "o", "n", "t", "e", "n", "t">>,
                original_url |-> current_doc.url,
                filtered_content |-> filtered_content,
                change_type |-> "updated_document",
                doc_type |-> current_doc.doc_type]>>

\* Optional[FilteredDocument] as a sequence of length 0 or 1
\* the document built from the new sections, if they hold enough words
ChangedSections(current_doc, new_sections) ==
    LET filtered_content == _build_filtered_content(new_sections)
    IN  IF new_sections = <<>> THEN <<>>
        ELSE IF WordCount(filtered_content) < min_new_content_words THEN <<>>
        ELSE <<[title |-> current_doc.title \o <<" ", "-", " ", "N", "e", "w", " ", "C", "o", "n", "t", "e", "n", "t">>,
                original_url |-> current_doc.url,
                filtered_content |-> filtered_content,
                change_type |-> "updated_document",
                doc_type |-> current_doc.doc_type]>>

\* m is the index of the matching previous document, 0 when there is none
AgainstPrevious(current_doc, previous_docs, m) ==
    IF m = 0
    THEN <<[title |-> current_doc.title \o <<" ", "(", "N", "e", "w", " ", "D", "o", "c", "u", "m", "e", "n", "t", ")">>,
            original_url |-> current_doc.url,
            filtered_content |-> current_doc.content,
            change_type |-> "new_document",
            doc_type |-> current_doc.doc_type]>>
    ELSE ChangedSections(current_doc,
             _find_new_content_sections(current_doc.content,
                                        previous_docs[m].content))

_extract_persistent_doc_changes(current_doc, previous_docs) ==
    AgainstPrevious(current_doc, previous_docs,
                    _find_matching_previous_doc(current_doc, previous_docs))

_create_ephemeral_filtered_doc(doc_info) ==
    [title |-> doc_info.title,
     original_url |-> doc_info.url,
     filtered_content |-> doc_info.content,
     change_type |-> "ephemeral",
     doc_type |-> doc_info.doc_type]

\* a faulty _create_unknown_filtered_doc that emits no content
EmptyUnknownDoc(doc_info) ==
    [title |-> doc_info.title,
     original_url |-> doc_info.url,
     filtered_content |-> <<>>,
     change_type |-> "unknown",
     doc_type |-> doc_info.doc_type]

_create_unknown_filtered_doc(doc_info) ==
    [title |-> doc_info.title \o <<" ", "(", "U", "n", "k", "n", "o", "w", "n", " ", "T", "y", "p", "e", ")">>,
     original_url |-> doc_info.url,
     filtered_content |-> doc_info.content,
     change_type |-> "unknown",
     doc_type |-> doc_info.doc_type]

(***************************************************************************)
(* SmartContentExtractor: the previous meeting file.                        *)
(***************************************************************************)
\* the least position >= from where sub occurs in s, or 0
FindSub(s, sub, from) ==
    LET hits == {i \in from..(Len(s) + 1) : StartsWithAt(s, i, sub)}
    IN  IF hits = {} THEN 0 ELSE CHOOSE i \in hits : \A j \in hits : i <= j

RECURSIVE ReplaceAll(_, _)
\* s.replace(sub, '')
ReplaceAll(s, sub) ==
    LET i == FindSub(s, sub, 1)
    IN  IF i = 0 \/ i > Len(s) THEN s
        ELSE SubSeq(s, 1, i - 1) \o ReplaceAll(SubSeq(s, i + Len(sub), Len(s)), sub)

\* _load_meeting_file: content.split('---', 2); a missing file gives {}
_load_meeting_file(file) ==
    IF file = NoFile \/ file = Unreadable THEN [yaml_metadata |-> <<>>, content |-> <<>>]
    ELSE LET i == FindSub(file, <<"-", "-", "-">>, 1)
             j == IF i = 0 THEN 0 ELSE FindSub(file, <<"-", "-", "-">>, i + 3)
         IN  IF j # 0
             THEN [yaml_metadata |-> SubSeq(file, i + 3, j - 1),
                   content |-> SubSeq(file, j + 3, Len(file))]
             ELSE [yaml_metadata |-> <<>>, content |-> file]

\* r'^## Document \d+\s*$' against one line
doc_pattern == <<Lit(<<"#", "#", " ", "D", "o", "c", "u", "m", "e", "n", "t", " ">>), DigitRun, WsStar>>

IsDocHeader(line) == MatchEnd(doc_pattern, 1, line, 1) = Len(line) + 1

RECURSIVE SplitDocs(_, _, _)
\* re.split(doc_pattern, content, flags=re.MULTILINE): the lines between
\* document headers, part by part
SplitDocs(lines, i, part) ==
    IF i > Len(lines) THEN <<part>>
    ELSE IF IsDocHeader(lines[i]) THEN <<part>> \o SplitDocs(lines, i + 1, <<>>)
    ELSE SplitDocs(lines, i + 1, Append(part, lines[i]))

\* r'https?://[^\s\)]+'
url_pattern == <<Lit(<<"h", "t", "t", "p">>), Alt(<<<<"s">>, <<>>>>), Lit(<<":", "/", "/">>),
                 [t |-> "run", set |-> Whitespace \cup {")"}, neg |-> TRUE,
                  min |-> 1, max |-> 0]>>

\* re.search(url_pattern, line).group(0), or '' when there is no match
SearchUrl(line) ==
    LET hits == {i \in 1..Len(line) : MatchEnd(url_pattern, 1, line, i) # 0}
    IN  IF hits = {} THEN <<>>
        ELSE LET i == CHOOSE h \in hits : \A g \in hits : h <= g
             IN  SubSeq(line, i, MatchEnd(url_pattern, 1, line, i) - 1)

DecimalText(n) ==
    LET d == <<"0", "1", "2", "3", "4", "5", "6", "7", "8", "9">>
    IN  IF n < 10 THEN <<d[n + 1]>> ELSE <<d[(n \div 10) + 1], d[(n % 10) + 1]>>

\* one part of the split as a document dict
ParsePart(part, i) ==
    LET lines == SplitLines(Strip(JoinLines(part)))
        titled == StartsWith(lines[1], <<"*", "*", "T", "i", "t", "l", "e", ":", "*", "*">>)
        content_start == IF titled THEN 1 ELSE 0
        body == SubSeq(lines, content_start + 1, Len(lines))
    IN  [title |-> IF titled THEN Strip(ReplaceAll(lines[1], <<"*", "*", "T", "i", "t", "l", "e", ":", "*", "*">>))
                   ELSE <<"D", "o", "c", "u", "m", "e", "n", "t", " ">> \o DecimalText(i),
         url |-> IF Len(lines) > content_start /\ Contains(lines[content_start + 1], <<"h", "t", "t", "p">>)
                 THEN SearchUrl(lines[content_start + 1])
                 ELSE <<>>,
         content |-> Strip(JoinLines(body))]

_extract_documents_from_meeting(meeting_data) ==
    LET content == meeting_data.content
        parts == SplitDocs(SplitLines(content), 1, <<>>)
    IN  IF content = <<>> THEN <<>>
        ELSE IF Len(parts) <= 1
        THEN <<[title |-> <<"M", "e", "e", "t", "i", "n", "g", " ", "C", "o", "n", "t", "e", "n", "t">>, url |-> <<>>, content |-> content]>>
        ELSE [i \in 1..(Len(parts) - 1) |-> ParsePart(parts[i + 1], i)]

(***************************************************************************)
(* Saving an occurrence: GoogleMeetFetcher._save_meeting_notes and          *)
(* FileOrganizer._prepare_content.                                          *)
(***************************************************************************)
\* the characters of the words and addresses that occur in metadata
Spelling ==
    "weekly" :> <<"w", "e", "e", "k", "l", "y">> @@
    "standup" :> <<"s", "t", "a", "n", "d", "u", "p">> @@
    "-" :> <<"-">> @@
    "week" :> <<"w", "e", "e", "k">> @@
    "29" :> <<"2", "9">> @@
    "30" :> <<"3", "0">> @@
    "alpha" :> <<"a", "l", "p", "h", "a">> @@
    "beta" :> <<"b", "e", "t", "a">> @@
    "gamma" :> <<"g", "a", "m", "m", "a">> @@
    "delta" :> <<"d", "e", "l", "t", "a">> @@
    "sync" :> <<"s", "y", "n", "c">> @@
    "omega" :> <<"o", "m", "e", "g", "a">> @@
    "alice@company.com" :> <<"a", "l", "i", "c", "e", "@", "c", "o", "m", "p", "a", "n", "y", ".", "c", "o", "m">> @@
    "bob@company.com" :> <<"b", "o", "b", "@", "c", "o", "m", "p", "a", "n", "y", ".", "c", "o", "m">>

TitleText(title) == Join([i \in 1..Len(title) |-> Spelling[title[i]]], <<" ">>)

\* the Tuesdays the dates 1, 2, ... stand for, and their ISO weeks
DateTexts == <<<<"2", "0", "2", "4", "-", "0", "7", "-", "1", "6">>, <<"2", "0", "2", "4", "-", "0", "7", "-", "2", "3">>, <<"2", "0", "2", "4", "-", "0", "7", "-", "3", "0">>, <<"2", "0", "2", "4", "-", "0", "8", "-", "0", "6">>, <<"2", "0", "2", "7", "-", "0", "7", "-", "1", "3">>, <<"2", "0", "2", "7", "-", "0", "7", "-", "2", "0">>, <<"2", "0", "2", "7", "-", "0", "7", "-", "2", "7">>>>
WeekTexts == <<<<"2", "0", "2", "4", "-", "W", "2", "9">>, <<"2", "0", "2", "4", "-", "W", "3", "0">>, <<"2", "0", "2", "4", "-", "W", "3", "1">>, <<"2", "0", "2", "4", "-", "W", "3", "2">>, <<"2", "0", "2", "7", "-", "W", "2", "8">>, <<"2", "0", "2", "7", "-", "W", "2", "9">>, <<"2", "0", "2", "7", "-", "W", "3", "0">>>>

\* the clock part of a slot such as "TUE-09:00"
ClockText(slot) == IF slot = "TUE-09:00" THEN <<"0", "9", ":", "0", "0">> ELSE <<"1", "4", ":", "0", "0">>

\* the body _save_meeting_notes assembles: meeting lines, then every note,
\* under a "## Document i" header and a title line when there are several
NoteParts(notes, i) ==
    (IF Len(notes) > 1
     THEN <<<<"#", "#", " ", "D", "o", "c", "u", "m", "e", "n", "t", " ">> \o DecimalText(i)>>
          \o (IF notes[i].title # <<>> THEN <<<<"*", "*", "T", "i", "t", "l", "e", ":", "*", "*">> \o <<" ">> \o notes[i].title>>
              ELSE <<>>)
          \o <<<<>>>>
     ELSE <<>>)
    \o <<notes[i].content, <<>>>>

_save_meeting_notes(meeting, notes) ==
    JoinLines(
        <<<<"*", "*", "D", "a", "t", "e", ":", "*", "*", " ">> \o DateTexts[meeting.start_time.date] \o <<" ">>
              \o ClockText(meeting.start_time.slot),
          <<"*", "*", "O", "r", "g", "a", "n", "i", "z", "e", "r", ":", "*", "*", " ">> \o Spelling[meeting.organizer],
          <<"*", "*", "A", "t", "t", "e", "n", "d", "e", "e", "s", ":", "*", "*", " ">> \o Join([i \in 1..Len(meeting.attendees) |->
                                   Spelling[meeting.attendees[i]]], <<",", " ">>),
          <<>>>>
        \o Concat([i \in 1..Len(notes) |-> NoteParts(notes, i)]))

\* the list repr of docs_links
LinksText(notes) ==
    <<"[">> \o Join([i \in 1..Len(notes) |-> <<"'">> \o notes[i].url \o <<"'">>],
                    <<",", " ">>) \o <<"]">>

\* _prepare_content: the YAML header between '---' lines, the H1 title, the body
_prepare_content(content, meeting, notes) ==
    JoinLines(
        <<<<"-", "-", "-">>,
          <<"d", "a", "t", "e", ":", " ">> \o DateTexts[meeting.start_time.date] \o <<"T">>
              \o ClockText(meeting.start_time.slot) \o <<":", "0", "0">>,
          <<"t", "i", "t", "l", "e", ":", " ">> \o TitleText(meeting.title),
          <<"w", "e", "e", "k", ":", " ">> \o WeekTexts[meeting.start_time.date],
          <<"m", "e", "e", "t", "i", "n", "g", "_", "i", "d", ":", " ", "e", "v", "t">> \o DecimalText(meeting.start_time.date),
          <<"o", "r", "g", "a", "n", "i", "z", "e", "r", ":", " ">> \o Spelling[meeting.organizer],
          <<"a", "t", "t", "e", "n", "d", "e", "e", "s", "_", "c", "o", "u", "n", "t", ":", " ">> \o DecimalText(Len(meeting.attendees)),
          <<"d", "o", "c", "s", "_", "c", "o", "u", "n", "t", ":", " ">> \o DecimalText(Len(notes)),
          <<"d", "o", "c", "s", "_", "l", "i", "n", "k", "s", ":", " ">> \o LinksText(notes),
          <<"-", "-", "-">>,
          <<>>,
          <<"#", " ">> \o TitleText(meeting.title),
          <<>>,
          content>>)

\* the text of the file save_meeting_note writes
save_meeting_note(meeting, notes) ==
    _prepare_content(_save_meeting_notes(meeting, notes), meeting, notes)

(***************************************************************************)
(* Occurrences of one series: the documents attached to the event.         *)
(***************************************************************************)
PlainMetadata == [shared |-> FALSE, content_length |-> 0]

Transcript ==
    [title |-> <<"T", "r", "a", "n", "s", "c", "r", "i", "p", "t">>,
     url |-> <<"h", "t", "t", "p", "s", ":", "/", "/", "d", "/", "0">>,
     content |-> <<"h", "i", " ", "a", "l", "l">>,
     metadata |-> PlainMetadata]

Agenda ==
    [title |-> <<"A", "g", "e", "n", "d", "a">>,
     url |-> <<"h", "t", "t", "p", "s", ":", "/", "/", "d", "/", "3">>,
     content |-> <<"i", "t", "e", "m", " ", "o", "n", "e">>,
     metadata |-> PlainMetadata]

Roadmap ==
    [title |-> <<"R", "o", "a", "d", "m", "a", "p">>,
     url |-> <<"h", "t", "t", "p", "s", ":", "/", "/", "d", "/", "1">>,
     content |-> <<"#", " ", "Q", "3", "\n", "a", " ", "b", " ", "c", " ", "d", " ", "e", " ", "f", " ", "g", " ", "h", " ", "i", " ", "j">>,
     metadata |-> PlainMetadata]

RoadmapNextQuarter ==
    [title |-> <<"R", "o", "a", "d", "m", "a", "p">>,
     url |-> <<"h", "t", "t", "p", "s", ":", "/", "/", "d", "/", "1">>,
     content |-> <<"#", " ", "Q", "3", "\n", "a", " ", "b", " ", "c", " ", "d", " ", "e", " ", "f", " ", "g", " ", "h", " ", "i", " ", "j", "\n", "#", " ", "Q", "4", "\n", "k", " ", "l", " ", "m", " ", "n", " ", "o", " ", "p", " ", "q", " ", "r", " ", "s", " ", "t">>,
     metadata |-> PlainMetadata]

RoadmapLog ==
    [title |-> <<"R", "o", "a", "d", "m", "a", "p">>,
     url |-> <<"h", "t", "t", "p", "s", ":", "/", "/", "d", "/", "1">>,
     content |-> <<"#", " ", "L", "o", "g", "\n", "a", " ", "b", " ", "c", " ", "d", " ", "e", " ", "f", " ", "g", " ", "h", "\n", "#", " ", "L", "o", "g", "\n", "k", " ", "l", " ", "m", " ", "n", " ", "o", " ", "p", " ", "q", " ", "r">>,
     metadata |-> PlainMetadata]

Backlog ==
    [title |-> <<"B", "a", "c", "k", "l", "o", "g">>,
     url |-> <<"h", "t", "t", "p", "s", ":", "/", "/", "d", "/", "2">>,
     content |-> <<"x", " ", "y", " ", "z">>,
     metadata |-> PlainMetadata]

Occurrences == {
    <<Transcript>>,
    <<Transcript, Roadmap>>,
    <<Agenda, Roadmap>>,
    <<Roadmap, Backlog>>,
    <<RoadmapNextQuarter, Backlog>>,
    <<RoadmapLog, Backlog>> }

\* the occurrences filtered: two series of one organizer and time slot
ExtractorMetadata ==
    {m \in Metadata : /\ m.title # <<"alpha", "beta", "gamma", "delta", "omega">>
                      /\ m.organizer = "alice@company.com"
                      /\ m.start_time.slot = "TUE-09:00"}

\* the files the occurrences are saved as
FileTexts ==
    {save_meeting_note(m, o) :
        m \in {x \in ExtractorMetadata : x.start_time.form = "datetime"},
        o \in Occurrences}

(***************************************************************************)
(* SmartContentExtractor: filtering one occurrence.                         *)
(***************************************************************************)
\* get_latest_meeting: the last registered reference if its file exists
get_latest_meeting(registry, sid, dir) ==
    IF sid \notin Keys(registry) THEN None
    ELSE LET meetings == Lookup(registry, sid).meetings
         IN  IF meetings = <<>> THEN None
             ELSE IF /\ meetings[Len(meetings)] \in DOMAIN dir
                     /\ dir[meetings[Len(meetings)]] # NoFile
                  THEN meetings[Len(meetings)]
             ELSE None

\* meetings[-limit:]
LastOf(meetings, limit) ==
    IF limit >= Len(meetings) THEN meetings
    ELSE SubSeq(meetings, Len(meetings) - limit + 1, Len(meetings))

\* get_series_meetings: the registered references whose files exist; limit 0
\* stands for None
get_series_meetings(registry, sid, limit, dir) ==
    IF sid \notin Keys(registry) THEN <<>>
    ELSE SelectSeq(IF limit # 0 THEN LastOf(Lookup(registry, sid).meetings, limit)
                   ELSE Lookup(registry, sid).meetings,
                   LAMBDA path : path \in DOMAIN dir /\ dir[path] # NoFile)

TotalWords(docs) == SumSeq([i \in 1..Len(docs) |-> WordCount(docs[i])])

\* classify_documents of each occurrence, computed once
ClassifiedOccurrences ==
    {[documents |-> o, classified |-> classify_documents(o)] : o \in Occurrences}

Classified(documents) ==
    IF documents \in Occurrences
    THEN (CHOOSE e \in ClassifiedOccurrences : e.documents = documents).classified
    ELSE classify_documents(documents)

FirstMeetingResult(classified_docs, series_id) ==
    LET total_words == TotalWords([i \in 1..Len(classified_docs) |->
                                      classified_docs[i].content])
    IN  [has_new_content |-> TRUE,
         filtered_documents |->
             [i \in 1..Len(classified_docs) |->
                 [title |-> classified_docs[i].title,
                  original_url |-> classified_docs[i].url,
                  filtered_content |-> classified_docs[i].content,
                  change_type |-> "first_meeting",
                  doc_type |-> classified_docs[i].doc_type]] \o <<>>,
         content_reduction_percentage |-> <<0, 1>>,
         original_word_count |-> total_words,
         filtered_word_count |-> total_words,
         series_id |-> series_id,
         previous_meeting_path |-> None]

\* a faulty _process_first_meeting that keeps only the first document
FirstDocumentOnly(documents, series_id) ==
    FirstMeetingResult(SubSeq(Classified(documents), 1, 1), series_id)

_process_first_meeting(documents, series_id) ==
    FirstMeetingResult(Classified(documents), series_id)

\* the filtered documents one classified document contributes (0 or 1)
\* "if filtered_doc and filtered_doc.filtered_content.strip()"
NonEmpty(filtered_doc) ==
    IF filtered_doc # <<>> /\ Strip(filtered_doc[1].filtered_content) # <<>>
    THEN filtered_doc ELSE <<>>

FilterDoc(doc_info, previous_docs) ==
    IF doc_info.doc_type = "ephemeral" THEN <<_create_ephemeral_filtered_doc(doc_info)>>
    ELSE IF doc_info.doc_type = "persistent"
    THEN NonEmpty(_extract_persistent_doc_changes(doc_info, previous_docs))
    ELSE <<_create_unknown_filtered_doc(doc_info)>>

\* the loop of _extract_new_content_vs_previous over the classified documents
WordCounts(classified_docs, filtered_documents) ==
    [filtered_documents |-> filtered_documents,
     original_word_count |->
         TotalWords([i \in 1..Len(classified_docs) |-> classified_docs[i].content]),
     filtered_word_count |->
         TotalWords([i \in 1..Len(filtered_documents) |->
                       filtered_documents[i].filtered_content])]

FilterClassified(classified_docs, previous_docs) ==
    WordCounts(classified_docs,
               Concat([i \in 1..Len(classified_docs) |->
                          FilterDoc(classified_docs[i], previous_docs)]))

FilterDocuments(documents, file) ==
    FilterClassified(Classified(documents),
                     _extract_documents_from_meeting(_load_meeting_file(file)))

\* FilterDocuments of each occurrence against each saved file, computed once
FilteredOccurrences ==
    {[documents |-> o, file |-> t, filtered |-> FilterDocuments(o, t)] :
        o \in Occurrences, t \in FileTexts}

Filtered(documents, file) ==
    IF documents \in Occurrences /\ file # Unreadable /\ file \in FileTexts
    THEN (CHOOSE e \in FilteredOccurrences :
              e.documents = documents /\ e.file = file).filtered
    ELSE FilterDocuments(documents, file)

VsPreviousResult(f, series_id, previous_meeting_path) ==
    [has_new_content |-> f.filtered_word_count > 0,
     filtered_documents |-> f.filtered_documents,
     content_reduction_percentage |->
         IF f.original_word_count > 0
         THEN <<(f.original_word_count - f.filtered_word_count) * 100,
                f.original_word_count>>
         ELSE <<0, 1>>,
     original_word_count |-> f.original_word_count,
     filtered_word_count |-> f.filtered_word_count,
     series_id |-> series_id,
     previous_meeting_path |-> previous_meeting_path]

_extract_new_content_vs_previous(documents, series_id, previous_meeting_path, file) ==
    VsPreviousResult(Filtered(documents, file), series_id, previous_meeting_path)

\* extract_new_content_only on the extractor's tracker: [raised, registry,
\* created, value]; created tells that create_new_series saved the registry
\* the series has a previous meeting file or not
AgainstLatest(dir, documents, series_id, previous_meeting_path) ==
    IF previous_meeting_path = None
    THEN _process_first_meeting(documents, series_id)
    ELSE _extract_new_content_vs_previous(documents, series_id, previous_meeting_path,
                                          dir[previous_meeting_path])

FirstOfSeries(documents, made) ==
    [raised |-> FALSE, registry |-> made.registry, created |-> TRUE,
     value |-> _process_first_meeting(documents, made.value)]

\* found is what identify_series returned
AfterIdentify(found, dir, meeting_metadata, documents) ==
    IF found.raised
    THEN [raised |-> TRUE, registry |-> found.registry, created |-> FALSE]
    ELSE IF found.value = None
    THEN FirstOfSeries(documents, create_new_series(found.registry, meeting_metadata))
    ELSE [raised |-> FALSE, registry |-> found.registry, created |-> FALSE,
          value |-> AgainstLatest(dir, documents, found.value,
                        get_latest_meeting(found.registry, found.value, dir))]

extract_new_content_only(registry, dir, meeting_metadata, documents) ==
    AfterIdentify(identify_series(registry, meeting_metadata),
                  dir, meeting_metadata, documents)

\* the series of the registry an occurrence belongs to, None without one
SeriesOf(registry, meeting_metadata) ==
    LET idx == FirstMatch(registry, _generate_fingerprint(meeting_metadata))
    IN  IF idx = 0 THEN None ELSE registry[idx].series_id

\* what the series holds as its previous occurrence: no reference, a
\* reference whose file is missing, a file that cannot be read, or a file
PreviousData(registry, sid, dir) ==
    IF sid \notin Keys(registry) THEN "no series"
    ELSE LET meetings == Lookup(registry, sid).meetings
         IN  IF meetings = <<>> THEN "no reference"
             ELSE IF \/ meetings[Len(meetings)] \notin DOMAIN dir
                     \/ dir[meetings[Len(meetings)]] = NoFile
                  THEN "missing"
             ELSE IF dir[meetings[Len(meetings)]] = Unreadable THEN "unreadable"
             ELSE "file"

(***************************************************************************)
(* MeetingContentCache: content signatures and their JSON form.            *)
(***************************************************************************)
MaxCacheDate == 2
MaxFiles == 3

CacheSeries == {"s1", "s2"}
CacheDates == 1..MaxCacheDate
Limits == 0..MaxCacheDate

\* ContentSignature values: one with nested sections and paragraphs, one
\* whose fields are all empty or zero
Signatures == {
    [meeting_id |-> "m1", content_version |-> "1.0", extracted_at |-> "t1",
     full_content_hash |-> "f1",
     sections |-> <<
         [header |-> "Notes", header_hash |-> "hn",
          paragraphs |-> <<
              [hash |-> "p1", content |-> "alpha beta", preview |-> "alpha",
               word_count |-> 2, position |-> 0],
              [hash |-> "p0", content |-> "", preview |-> "",
               word_count |-> 0, position |-> 1]>>,
          position |-> 0],
         [header |-> "", header_hash |-> "h0", paragraphs |-> <<>>,
          position |-> 1]>>,
     total_words |-> 2, total_paragraphs |-> 2],
    [meeting_id |-> "m2", content_version |-> "", extracted_at |-> "",
     full_content_hash |-> "", sections |-> <<>>,
     total_words |-> 0, total_paragraphs |-> 0] }

\* a JSON value or token: t is "str", "int", "list", "dict" or, for a
\* punctuation token, "p"
J(t, v) == [t |-> t, v |-> v]

\* dataclasses.asdict over ContentSignature, Section and Paragraph; a dict is
\* the sequence of its <<key, value>> pairs
_signature_to_dict(signature) ==
    LET ParagraphDict(p) ==
            J("dict", <<<<"hash", J("str", p.hash)>>,
                        <<"content", J("str", p.content)>>,
                        <<"preview", J("str", p.preview)>>,
                        <<"word_count", J("int", p.word_count)>>,
                        <<"position", J("int", p.position)>>>>)
        SectionDict(s) ==
            J("dict", <<<<"header", J("str", s.header)>>,
                        <<"header_hash", J("str", s.header_hash)>>,
                        <<"paragraphs",
                          J("list", [i \in 1..Len(s.paragraphs) |->
                                        ParagraphDict(s.paragraphs[i])] \o <<>>)>>,
                        <<"position", J("int", s.position)>>>>)
    IN  J("dict", <<<<"meeting_id", J("str", signature.meeting_id)>>,
                    <<"content_version", J("str", signature.content_version)>>,
                    <<"extracted_at", J("str", signature.extracted_at)>>,
                    <<"full_content_hash", J("str", signature.full_content_hash)>>,
                    <<"sections",
                      J("list", [i \in 1..Len(signature.sections) |->
                                    SectionDict(signature.sections[i])] \o <<>>)>>,
                    <<"total_words", J("int", signature.total_words)>>,
                    <<"total_paragraphs", J("int", signature.total_paragraphs)>>>>)

RECURSIVE json_dump(_)
RECURSIVE DumpItems(_, _)
\* json.dump: the JSON text as its sequence of tokens
json_dump(j) ==
    IF j.t = "list" THEN <<J("p", "[")>> \o DumpItems(j.v, FALSE) \o <<J("p", "]")>>
    ELSE IF j.t = "dict" THEN <<J("p", "{")>> \o DumpItems(j.v, TRUE) \o <<J("p", "}")>>
    ELSE <<j>>

DumpItems(items, keyed) ==
    IF Len(items) = 0 THEN <<>>
    ELSE (IF keyed
          THEN <<J("str", items[1][1]), J("p", ":")>> \o json_dump(items[1][2])
          ELSE json_dump(items[1]))
         \o (IF Len(items) > 1 THEN <<J("p", ",")>> ELSE <<>>)
         \o DumpItems(Tail(items), keyed)

IsP(toks, i, c) == i <= Len(toks) /\ toks[i].t = "p" /\ toks[i].v = c

RECURSIVE ParseValue(_, _)
RECURSIVE ParseItems(_, _, _, _)
\* the item parsed as r (under key when keyed) joins acc; then "," or the close
ItemParsed(toks, keyed, acc, key, r) ==
    IF ~r.ok THEN [ok |-> FALSE]
    ELSE IF IsP(toks, r.next, IF keyed THEN "}" ELSE "]")
    THEN [ok |-> TRUE, next |-> r.next + 1,
          value |-> J(IF keyed THEN "dict" ELSE "list",
                      Append(acc, IF keyed THEN <<key, r.value>> ELSE r.value))]
    ELSE IF IsP(toks, r.next, ",")
    THEN ParseItems(toks, r.next + 1, keyed,
                    Append(acc, IF keyed THEN <<key, r.value>> ELSE r.value))
    ELSE [ok |-> FALSE]

\* the members of an object (keyed) or the elements of an array from token i
ParseItems(toks, i, keyed, acc) ==
    IF Len(acc) = 0 /\ IsP(toks, i, IF keyed THEN "}" ELSE "]")
    THEN [ok |-> TRUE, next |-> i + 1,
          value |-> J(IF keyed THEN "dict" ELSE "list", <<>>)]
    ELSE IF ~keyed THEN ItemParsed(toks, keyed, acc, "", ParseValue(toks, i))
    ELSE IF i <= Len(toks) /\ toks[i].t = "str" /\ IsP(toks, i + 1, ":")
    THEN ItemParsed(toks, keyed, acc, toks[i].v, ParseValue(toks, i + 2))
    ELSE [ok |-> FALSE]

ParseValue(toks, i) ==
    IF i > Len(toks) THEN [ok |-> FALSE]
    ELSE IF toks[i].t # "p" THEN [ok |-> TRUE, next |-> i + 1, value |-> toks[i]]
    ELSE IF toks[i].v = "[" THEN ParseItems(toks, i + 1, FALSE, <<>>)
    ELSE IF toks[i].v = "{" THEN ParseItems(toks, i + 1, TRUE, <<>>)
    ELSE [ok |-> FALSE]

\* json.load: [raised, value]; raised on anything but one complete value
json_load(toks) ==
    LET r == ParseValue(toks, 1)
    IN  IF r.ok /\ r.next = Len(toks) + 1
        THEN [raised |-> FALSE, value |-> r.value]
        ELSE [raised |-> TRUE]

\* d[key] and d.get(key, default) on a loaded dict (the last pair counts)
HasKey(d, key) == \E i \in DOMAIN d.v : d.v[i][1] = key
Item(d, key) == d.v[CHOOSE i \in DOMAIN d.v :
                       /\ d.v[i][1] = key
                       /\ \A k \in DOMAIN d.v : d.v[k][1] = key => k <= i][2]
\* a faulty dict.get that ignores the stored value
AlwaysDefault(d, key, default) == default

Get(d, key, default) == IF HasKey(d, key) THEN Item(d, key) ELSE default

\* what a for loop over the loaded value x can run over: the elements of a
\* list, nothing for an empty str or dict; anything else raises in the loop
Iterable(x) == x.t = "list" \/ (x.t = "str" /\ x.v = "") \/ (x.t = "dict" /\ Len(x.v) = 0)
Elements(x) == IF x.t = "list" THEN x.v ELSE <<>>

\* Paragraph(**para_data) accepts exactly the five fields
ParagraphFields == {"hash", "content", "preview", "word_count", "position"}
ParagraphOk(p) ==
    /\ p.t = "dict"
    /\ {p.v[i][1] : i \in DOMAIN p.v} = ParagraphFields

SectionOk(s) ==
    /\ s.t = "dict"
    /\ \A key \in {"header", "header_hash", "position"} : HasKey(s, key)
    /\ Iterable(Get(s, "paragraphs", J("list", <<>>)))
    /\ \A p \in Range(Elements(Get(s, "paragraphs", J("list", <<>>)))) : ParagraphOk(p)

\* _dict_to_signature: [raised, value]; raised where the code raises
\* (AttributeError, KeyError or TypeError)
_dict_to_signature(data) ==
    LET ParagraphOf(p) ==
            [hash |-> Item(p, "hash").v, content |-> Item(p, "content").v,
             preview |-> Item(p, "preview").v,
             word_count |-> Item(p, "word_count").v,
             position |-> Item(p, "position").v]
        ParagraphsOf(ps) == [i \in 1..Len(ps) |-> ParagraphOf(ps[i])] \o <<>>
        SectionOf(s) ==
            [header |-> Item(s, "header").v,
             header_hash |-> Item(s, "header_hash").v,
             paragraphs |-> ParagraphsOf(Elements(Get(s, "paragraphs", J("list", <<>>)))),
             position |-> Item(s, "position").v]
        SectionsOf(ss) == [i \in 1..Len(ss) |-> SectionOf(ss[i])] \o <<>>
    IN  IF \/ data.t # "dict"
           \/ ~Iterable(Get(data, "sections", J("list", <<>>)))
           \/ \E s \in Range(Elements(Get(data, "sections", J("list", <<>>)))) :
                  ~SectionOk(s)
           \/ ~HasKey(data, "meeting_id")
        THEN [raised |-> TRUE]
        ELSE [raised |-> FALSE,
              value |->
                  [meeting_id |-> Item(data, "meeting_id").v,
                   content_version |-> Get(data, "content_version", J("str", "1.0")).v,
                   extracted_at |-> Get(data, "extracted_at", J("str", "")).v,
                   full_content_hash |-> Get(data, "full_content_hash", J("str", "")).v,
                   sections |-> SectionsOf(Elements(Get(data, "sections", J("list", <<>>)))),
                   total_words |-> Get(data, "total_words", J("int", 0)).v,
                   total_paragraphs |-> Get(data, "total_paragraphs", J("int", 0)).v]]

(***************************************************************************)
(* MeetingContentCache: the files and the calls on them.                   *)
(***************************************************************************)
\* <series_id>/<meeting_date>_content.json and ..._content.json.gz
CacheSlots == CacheSeries \X CacheDates \X {"gz", "json"}
Path(series_id, meeting_date, compressed) ==
    <<series_id, meeting_date, IF compressed THEN "gz" ELSE "json">>

NoSignature ==
    [meeting_id |-> "", content_version |-> "", extracted_at |-> "",
     full_content_hash |-> "", sections |-> <<>>,
     total_words |-> 0, total_paragraphs |-> 0]

\* a file: gz tells a gzip container, text is the JSON text in it, readable
\* tells whether open() succeeds; signature (what store was given), newest
\* (the later written of the two files of one key) and damage record its
\* history and are read by no cache call
Absent ==
    [exists |-> FALSE, gz |-> FALSE, readable |-> FALSE, text |-> <<>>,
     signature |-> NoSignature, newest |-> FALSE, damage |-> "none"]

\* series_dir.exists(): the directory is made by the first store
SeriesDirExists(cfiles, series_id) ==
    \E k \in CacheSlots : k[1] = series_id /\ cfiles[k].exists

\* store_content_signature: [value, files]
store_content_signature(cfiles, compression, series_id, meeting_date, signature) ==
    IF /\ cfiles[Path(series_id, meeting_date, compression)].exists
       /\ ~cfiles[Path(series_id, meeting_date, compression)].readable
    THEN [value |-> FALSE, files |-> cfiles]
    ELSE [value |-> TRUE,
          files |-> [cfiles EXCEPT
              ![Path(series_id, meeting_date, compression)] =
                  [exists |-> TRUE, gz |-> compression, readable |-> TRUE,
                   text |-> json_dump(_signature_to_dict(signature)),
                   signature |-> signature, newest |-> TRUE, damage |-> "none"],
              ![Path(series_id, meeting_date, ~compression)].newest = FALSE]]

NotFound == [raised |-> FALSE, found |-> FALSE, value |-> NoSignature]
Raised == [raised |-> TRUE, found |-> FALSE, value |-> NoSignature]

\* what _dict_to_signature makes of the loaded text
Converted(loaded) ==
    IF loaded.raised THEN Raised
    ELSE IF _dict_to_signature(loaded.value).raised THEN Raised
    ELSE [raised |-> FALSE, found |-> TRUE,
          value |-> _dict_to_signature(loaded.value).value]

\* gzip.open(..., 'rt') or open(..., 'r'), then json.load and the conversion
LoadFile(file, as_gz) ==
    IF ~file.readable \/ file.gz # as_gz THEN Raised
    ELSE Converted(json_load(file.text))

\* the body of get_content_signature's try block
ReadSignature(cfiles, compression, series_id, meeting_date) ==
    IF ~SeriesDirExists(cfiles, series_id) THEN NotFound
    ELSE IF cfiles[Path(series_id, meeting_date, TRUE)].exists /\ compression
    THEN LoadFile(cfiles[Path(series_id, meeting_date, TRUE)], TRUE)
    ELSE IF cfiles[Path(series_id, meeting_date, FALSE)].exists
    THEN LoadFile(cfiles[Path(series_id, meeting_date, FALSE)], FALSE)
    ELSE NotFound

\* "except Exception: return None"
Caught(r) == IF r.raised THEN NotFound ELSE r

\* a faulty get_content_signature without the except clause
UncaughtGet(cfiles, compression, series_id, meeting_date) ==
    ReadSignature(cfiles, compression, series_id, meeting_date)

get_content_signature(cfiles, compression, series_id, meeting_date) ==
    Caught(ReadSignature(cfiles, compression, series_id, meeting_date))

RECURSIVE Collected(_, _)
\* the loop "signature = get_content_signature(...); if signature: append":
\* an exception ends the loop and the list built so far is returned
Collected(rs, i) ==
    IF i > Len(rs) \/ rs[i].raised THEN <<>>
    ELSE (IF rs[i].found THEN <<rs[i].value>> ELSE <<>>) \o Collected(rs, i + 1)

RECURSIVE ContentFiles(_, _, _)
\* content_files sorted by date, most recent first: one entry per file
ContentFiles(cfiles, series_id, d) ==
    IF d = 0 THEN <<>>
    ELSE (IF cfiles[Path(series_id, d, TRUE)].exists THEN <<d>> ELSE <<>>)
         \o (IF cfiles[Path(series_id, d, FALSE)].exists THEN <<d>> ELSE <<>>)
         \o ContentFiles(cfiles, series_id, d - 1)

\* content_files[:limit]
Slice(s, limit) == SubSeq(s, 1, IF limit < Len(s) THEN limit ELSE Len(s))

Signatures_of(cfiles, compression, series_id, dates) ==
    Collected([i \in 1..Len(dates) |->
                  get_content_signature(cfiles, compression, series_id, dates[i])]
              \o <<>>, 1)

get_latest_signatures(cfiles, compression, series_id, limit) ==
    IF ~SeriesDirExists(cfiles, series_id) THEN <<>>
    ELSE Signatures_of(cfiles, compression, series_id,
                       Slice(ContentFiles(cfiles, series_id, MaxCacheDate), limit))

\* every date from start_date to end_date is looked up
get_signatures_in_range(cfiles, compression, series_id, start_date, end_date) ==
    IF ~SeriesDirExists(cfiles, series_id) THEN <<>>
    ELSE Signatures_of(cfiles, compression, series_id,
                       [i \in 1..(end_date - start_date + 1) |-> start_date + i - 1])

\* get_cache_statistics, without the byte sizes
get_cache_statistics(cfiles) ==
    [total_series |-> Cardinality({s \in CacheSeries : SeriesDirExists(cfiles, s)}),
     total_signatures |-> Cardinality({k \in CacheSlots : cfiles[k].exists}),
     series_details |->
         [s \in {x \in CacheSeries : SeriesDirExists(cfiles, x)} |->
             [signature_count |->
                 Cardinality({k \in CacheSlots : k[1] = s /\ cfiles[k].exists})]]]

(***************************************************************************)
(* ContentHasher.  A SHA-256 digest is held as the text it digests: two    *)
(* digests are equal exactly when the digested texts are equal.            *)
(***************************************************************************)
\* U+200B, U+200C, U+200D, U+FEFF, each one character of a str
ZeroWidth == {"ZWSP", "ZWNJ", "ZWJ", "BOM"}

\* _hash_text: the digest of text.strip().lower()
_hash_text(text) == Lower(Strip(text))

\* re.sub(r'\s+', ' ', text): every run of whitespace becomes one space
CollapseWhitespace(text) ==
    LET kept == Pick(text, {i \in 1..Len(text) :
                        \/ text[i] \notin Whitespace
                        \/ i = 1
                        \/ text[i - 1] \notin Whitespace})
    IN  [i \in 1..Len(kept) |-> IF kept[i] \in Whitespace THEN " " ELSE kept[i]]

_normalize_paragraph(text) ==
    SelectSeq(CollapseWhitespace(Strip(text)), LAMBDA c : c \notin ZeroWidth)

_create_paragraph(text, position) ==
    [hash |-> _hash_text(text),
     content |-> text,
     preview |-> IF Len(text) > 50 THEN SubSeq(text, 1, 50) \o <<".", ".", ".">>
                 ELSE text,
     word_count |-> WordCount(text),
     position |-> position]

\* Paragraph.is_empty
is_empty(paragraph) == paragraph.word_count = 0 \/ Strip(paragraph.content) = <<>>

\* the first index from i on where s leaves the characters of set
SpanEnd(s, i, set) ==
    LET out == {j \in i..Len(s) : s[j] \notin set}
    IN  IF out = {} THEN Len(s) + 1 ELSE CHOOSE j \in out : \A k \in out : j <= k

RECURSIVE SplitParagraphs(_)
\* re.split(r'\n\n+', text): the pieces between runs of two or more newlines
SplitParagraphs(text) ==
    LET breaks == {i \in 1..(Len(text) - 1) : text[i] = "\n" /\ text[i + 1] = "\n"}
    IN  IF breaks = {} THEN <<text>>
        ELSE LET i == CHOOSE b \in breaks : \A c \in breaks : b <= c
             IN  <<SubSeq(text, 1, i - 1)>> \o
                 SplitParagraphs(SubSeq(text, SpanEnd(text, i, {"\n"}), Len(text)))

\* the loop of extract_paragraphs: position counts the paragraphs kept
KeptParagraphs(para_texts) ==
    LET kept == SelectSeq(para_texts,
                    LAMBDA t : t # <<>> /\ ~is_empty(_create_paragraph(t, 0)))
    IN  [i \in 1..Len(kept) |-> _create_paragraph(kept[i], i - 1)]

extract_paragraphs(text) ==
    IF Strip(text) = <<>> THEN <<>>
    ELSE KeptParagraphs([i \in 1..Len(SplitParagraphs(text)) |->
                            _normalize_paragraph(SplitParagraphs(text)[i])])

\* re.match(r'^#+\s+(.+)$', line) on a stripped line: group(1).strip(), or ''
MarkdownHeader(line) ==
    LET hashes == SpanEnd(line, 1, {"#"})
        title == SpanEnd(line, hashes, Whitespace)
    IN  IF hashes > 1 /\ title > hashes /\ title <= Len(line)
        THEN Strip(SubSeq(line, title, Len(line)))
        ELSE <<>>

\* re.match(r'^[=-]+$', line)
IsUnderline(line) == line # <<>> /\ \A i \in 1..Len(line) : line[i] \in {"=", "-"}

BoldMark(line, i) == StartsWithAt(line, i, <<"*", "*">>) \/ StartsWithAt(line, i, <<"_", "_">>)

\* (?:\s*:)?$ on what follows the closing mark
BoldEnd(rest) ==
    \/ rest = <<>>
    \/ /\ rest[Len(rest)] = ":"
       /\ \A i \in 1..(Len(rest) - 1) : rest[i] \in Whitespace

\* re.match(r'^(?:\*\*|__)(.+?)(?:\*\*|__)(?:\s*:)?$', line): the shortest
\* group(1) that lets the rest match
BoldHeader(line) ==
    LET sizes == {k \in 1..(Len(line) - 4) :
                     /\ BoldMark(line, 3 + k)
                     /\ BoldEnd(SubSeq(line, 5 + k, Len(line)))}
    IN  IF BoldMark(line, 1) /\ sizes # {}
        THEN [matched |-> TRUE,
              header |-> Strip(SubSeq(line, 3,
                             2 + CHOOSE k \in sizes : \A l \in sizes : k <= l))]
        ELSE [matched |-> FALSE, header |-> <<>>]

\* str.isupper(): a cased character occurs and no lower-case one does
isupper(line) ==
    /\ \E i \in 1..Len(line) : line[i] \in Range(UpperCase)
    /\ \A i \in 1..Len(line) : line[i] \notin Range(LowerCase)

\* _extract_header on the stripped line; the empty text stands for None and
\* for '', which the caller treats alike
HeaderOf(line, next_line) ==
    IF line = <<>> THEN <<>>
    ELSE IF MarkdownHeader(line) # <<>> THEN MarkdownHeader(line)
    ELSE IF next_line # <<>> /\ IsUnderline(Strip(next_line)) THEN line
    ELSE IF BoldHeader(line).matched THEN BoldHeader(line).header
    ELSE IF isupper(line) /\ WordCount(line) <= 5 THEN line
    ELSE <<>>

_extract_header(line, next_line) == HeaderOf(Strip(line), next_line)

_create_section(header, content, position) ==
    [header |-> Strip(header),
     header_hash |-> _hash_text(Strip(header)),
     paragraphs |-> extract_paragraphs(content),
     position |-> position]

\* replace('\r\n', '\n').replace('\r', '\n')
NormalizeLineEndings(content) ==
    LET kept == Pick(content, {i \in 1..Len(content) :
                        ~(content[i] = "\r" /\ i < Len(content) /\ content[i + 1] = "\n")})
    IN  [i \in 1..Len(kept) |-> IF kept[i] = "\r" THEN "\n" ELSE kept[i]]

\* a faulty WithSection that counts the sections it drops
WithSectionCounted(st, section) ==
    IF section.paragraphs # <<>>
    THEN [st EXCEPT !.sections = Append(@, section), !.position = @ + 1]
    ELSE [st EXCEPT !.position = @ + 1]

\* "Process previous section": the section of the lines collected so far is
\* appended when it has paragraphs
WithSection(st, section) ==
    IF section.paragraphs # <<>>
    THEN [st EXCEPT !.sections = Append(@, section), !.position = @ + 1]
    ELSE st

Flushed(st) ==
    IF st.content # <<>>
    THEN WithSection(st, _create_section(st.header, JoinLines(st.content), st.position))
    ELSE st

RECURSIVE SectionLines(_, _, _)
\* one pass of the while loop, header being _extract_header of lines[i]
AfterHeader(lines, i, st, header) ==
    IF header # <<>>
    THEN SectionLines(lines,
                      IF i + 1 <= Len(lines) /\ IsUnderline(lines[i + 1])
                      THEN i + 2 ELSE i + 1,
                      [Flushed(st) EXCEPT !.header = header, !.content = <<>>])
    ELSE SectionLines(lines, i + 1, [st EXCEPT !.content = Append(@, lines[i])])

\* the while loop of extract_sections from line i on, then the final section
SectionLines(lines, i, st) ==
    IF i > Len(lines) THEN Flushed(st).sections
    ELSE AfterHeader(lines, i, st,
             _extract_header(lines[i], IF i + 1 <= Len(lines) THEN lines[i + 1] ELSE <<>>))

extract_sections(content) ==
    IF content = <<>> THEN <<>>
    ELSE SectionLines(SplitLines(NormalizeLineEndings(content)), 1,
                      [sections |-> <<>>, content |-> <<>>,
                       header |-> <<"I", "n", "t", "r", "o", "d", "u", "c", "t", "i", "o", "n">>,
                       position |-> 0])

SectionWords(section) ==
    SumSeq([i \in 1..Len(section.paragraphs) |-> section.paragraphs[i].word_count])

\* the ContentSignature of the sections found
SignatureOf(meeting_id, content, extracted_at, sections) ==
    [meeting_id |-> meeting_id,
     content_version |-> "1.0",
     extracted_at |-> extracted_at,
     full_content_hash |-> _hash_text(content),
     sections |-> sections,
     total_words |-> SumSeq([i \in 1..Len(sections) |-> SectionWords(sections[i])]),
     total_paragraphs |-> SumSeq([i \in 1..Len(sections) |-> Len(sections[i].paragraphs)])]

create_content_signature(meeting_id, content, extracted_at) ==
    IF content = <<>>
    THEN [meeting_id |-> meeting_id, content_version |-> "1.0",
          extracted_at |-> extracted_at, full_content_hash |-> _hash_text(<<>>),
          sections |-> <<>>, total_words |-> 0, total_paragraphs |-> 0]
    ELSE SignatureOf(meeting_id, content, extracted_at, extract_sections(content))

(***************************************************************************)
(* DiffEngine.  An Optional value is a sequence of at most one element;    *)
(* a similarity is the pair <<numerator, denominator>>.                    *)
(***************************************************************************)
similarity_threshold == <<85, 100>>

AtLeast(x, y) == x[1] * y[2] >= y[1] * x[2]

\* DiffEngine._calculate_similarity
diff_calculate_similarity(text1, text2) ==
    IF text1 = <<>> \/ text2 = <<>>
    THEN (IF text1 # text2 THEN <<0, 1>> ELSE <<1, 1>>)
    ELSE ratio(Lower(text1), Lower(text2))

RECURSIVE BestCandidate(_, _, _, _, _, _)
\* the loop of _find_best_match: best is the index of best_match, 0 for None
BestCandidate(scores, candidates, exclude_hashes, i, best, best_score) ==
    IF i > Len(candidates) THEN <<best, best_score>>
    ELSE IF candidates[i].hash \in exclude_hashes
    THEN BestCandidate(scores, candidates, exclude_hashes, i + 1, best, best_score)
    ELSE IF Greater(scores[i], best_score)
    THEN BestCandidate(scores, candidates, exclude_hashes, i + 1, i, scores[i])
    ELSE BestCandidate(scores, candidates, exclude_hashes, i + 1, best, best_score)

\* (best_match, best_score) as <<paragraph, score>>, or <<>> for None
BestMatchOf(candidates, found) ==
    IF found[1] # 0 /\ AtLeast(found[2], similarity_threshold)
    THEN <<candidates[found[1]], found[2]>>
    ELSE <<>>

_find_best_match(paragraph, candidates, exclude_hashes) ==
    BestMatchOf(candidates,
        BestCandidate([i \in 1..Len(candidates) |->
                          diff_calculate_similarity(paragraph.content,
                                                    candidates[i].content)] \o <<>>,
                      candidates, exclude_hashes, 1, 0, <<0, 1>>))

ParagraphChange(change_type, old_paragraph, new_paragraph, old_section, new_section, similarity_score) ==
    [change_type |-> change_type, old_paragraph |-> old_paragraph,
     new_paragraph |-> new_paragraph, old_section |-> old_section,
     new_section |-> new_section, similarity_score |-> similarity_score]

RECURSIVE FirstPass(_, _, _, _, _, _, _)
\* an old paragraph without an exact match: MODIFIED with its best match, or
\* REMOVED
Unmatched(old_paragraphs, new_paragraphs, old_section, new_section, i, changes, processed_new, best_match) ==
    IF best_match # <<>> /\ AtLeast(best_match[2], similarity_threshold)
    THEN FirstPass(old_paragraphs, new_paragraphs, old_section, new_section, i + 1,
                   Append(changes,
                          ParagraphChange("modified", <<old_paragraphs[i]>>,
                                          <<best_match[1]>>, old_section, new_section,
                                          best_match[2])),
                   processed_new \cup {best_match[1].hash})
    ELSE FirstPass(old_paragraphs, new_paragraphs, old_section, new_section, i + 1,
                   Append(changes,
                          ParagraphChange("removed", <<old_paragraphs[i]>>, <<>>,
                                          old_section, new_section, <<0, 1>>)),
                   processed_new)

\* "First pass: Find exact matches and removals": <<changes, processed_new>>
FirstPass(old_paragraphs, new_paragraphs, old_section, new_section, i, changes, processed_new) ==
    IF i > Len(old_paragraphs) THEN <<changes, processed_new>>
    ELSE IF \E k \in 1..Len(new_paragraphs) : new_paragraphs[k].hash = old_paragraphs[i].hash
    THEN FirstPass(old_paragraphs, new_paragraphs, old_section, new_section, i + 1,
                   changes, processed_new \cup {old_paragraphs[i].hash})
    ELSE Unmatched(old_paragraphs, new_paragraphs, old_section, new_section, i,
                   changes, processed_new,
                   _find_best_match(old_paragraphs[i], new_paragraphs, processed_new))

\* "Second pass: Find additions"
SecondPass(new_paragraphs, old_section, new_section, first) ==
    LET added == SelectSeq(new_paragraphs, LAMBDA p : p.hash \notin first[2])
    IN  first[1] \o [k \in 1..Len(added) |->
                        ParagraphChange("added", <<>>, <<added[k]>>, old_section,
                                        new_section, <<0, 1>>)]

_compare_paragraphs(old_paragraphs, new_paragraphs, old_section, new_section) ==
    SecondPass(new_paragraphs, old_section, new_section,
               FirstPass(old_paragraphs, new_paragraphs, old_section, new_section,
                         1, <<>>, {}))

\* a dict built as {key(x): x for x in items}: the positions of its values,
\* in the order of its keys (a key keeps its first place and its last value)
DictPositions(keys) ==
    LET firsts == SelectIdx(Len(keys), {i \in 1..Len(keys) :
                                \A j \in 1..(i - 1) : keys[j] # keys[i]}, 1)
    IN  [k \in 1..Len(firsts) |->
            CHOOSE i \in 1..Len(keys) :
                /\ keys[i] = keys[firsts[k]]
                /\ \A j \in (i + 1)..Len(keys) : keys[j] # keys[i]]

Headers(sections) == [i \in 1..Len(sections) |-> sections[i].header]

SectionChange(change_type, old_section, new_section, paragraph_changes) ==
    [change_type |-> change_type, old_section |-> old_section,
     new_section |-> new_section, paragraph_changes |-> paragraph_changes]

\* a section present in both: MODIFIED when its paragraphs changed
BothChange(old_section, new_section, paragraph_changes) ==
    IF paragraph_changes # <<>>
    THEN <<SectionChange("modified", <<old_section>>, <<new_section>>, paragraph_changes)>>
    ELSE <<>>

\* the change, if any, that the loop over old_sections emits for old_section
OldSectionChange(old_section, new_sections, new_section_map) ==
    LET at == {k \in 1..Len(new_section_map) :
                  new_sections[new_section_map[k]].header = old_section.header}
    IN  IF at # {}
        THEN BothChange(old_section, new_sections[new_section_map[CHOOSE k \in at : TRUE]],
                 _compare_paragraphs(old_section.paragraphs,
                     new_sections[new_section_map[CHOOSE k \in at : TRUE]].paragraphs,
                     old_section.header, old_section.header))
        ELSE <<SectionChange("removed", <<old_section>>, <<>>, <<>>)>>

\* "Check for new sections": the sections of new_section_map not processed
AddedSections(old_sections, new_sections, new_section_map) ==
    LET added == SelectSeq(new_section_map,
                     LAMBDA i : \A j \in 1..Len(old_sections) :
                                    old_sections[j].header # new_sections[i].header)
    IN  [k \in 1..Len(added) |->
            SectionChange("added", <<>>, <<new_sections[added[k]]>>, <<>>)]

_compare_sections(old_sections, new_sections) ==
    Concat([i \in 1..Len(old_sections) |->
               OldSectionChange(old_sections[i], new_sections,
                                DictPositions(Headers(new_sections)))])
    \o AddedSections(old_sections, new_sections, DictPositions(Headers(new_sections)))

\* one <<hash, header>> per paragraph, in the order the maps are filled
ParagraphEntries(sections) ==
    Concat([i \in 1..Len(sections) |->
               [k \in 1..Len(sections[i].paragraphs) |->
                   <<sections[i].paragraphs[k].hash, sections[i].header>>]])

\* "Find the actual paragraph objects": of the sections with this header,
\* the last one that holds the hash decides; in it, the first such paragraph
FindParagraph(sections, header, para_hash) ==
    LET holds(i) == {k \in 1..Len(sections[i].paragraphs) :
                        sections[i].paragraphs[k].hash = para_hash}
        at == {i \in 1..Len(sections) :
                  sections[i].header = header /\ holds(i) # {}}
        last == CHOOSE i \in at : \A j \in at : i >= j
    IN  IF at = {} THEN <<>>
        ELSE <<sections[last].paragraphs[CHOOSE k \in holds(last) :
                                             \A l \in holds(last) : k <= l]>>

\* the entry of new_para_to_section for the hash, as an Optional header
SectionOfHash(entries, para_hash) ==
    LET at == {i \in 1..Len(entries) : entries[i][1] = para_hash}
    IN  IF at = {} THEN <<>>
        ELSE <<entries[CHOOSE i \in at : \A j \in at : i >= j][2]>>

\* MovedChange that reports a move only between sections whose headers both
\* signatures carry
MovedBetweenKept(old_sections, new_sections, para_hash, old_section_header, new_header) ==
    IF new_header # <<>> /\ new_header[1] # old_section_header
       /\ \E i \in 1..Len(new_sections) : new_sections[i].header = old_section_header
       /\ FindParagraph(old_sections, old_section_header, para_hash) # <<>>
       /\ FindParagraph(new_sections, new_header[1], para_hash) # <<>>
    THEN <<ParagraphChange("moved",
               FindParagraph(old_sections, old_section_header, para_hash),
               FindParagraph(new_sections, new_header[1], para_hash),
               old_section_header, new_header[1], <<1, 1>>)>>
    ELSE <<>>

\* the body of the loop over old_para_to_section.items()
MovedChange(old_sections, new_sections, para_hash, old_section_header, new_header) ==
    IF new_header # <<>> /\ new_header[1] # old_section_header
       /\ FindParagraph(old_sections, old_section_header, para_hash) # <<>>
       /\ FindParagraph(new_sections, new_header[1], para_hash) # <<>>
    THEN <<ParagraphChange("moved",
               FindParagraph(old_sections, old_section_header, para_hash),
               FindParagraph(new_sections, new_header[1], para_hash),
               old_section_header, new_header[1], <<1, 1>>)>>
    ELSE <<>>

MovedOf(old_sections, new_sections, old_entries, new_entries, old_para_to_section) ==
    Concat([k \in 1..Len(old_para_to_section) |->
               MovedChange(old_sections, new_sections,
                           old_entries[old_para_to_section[k]][1],
                           old_entries[old_para_to_section[k]][2],
                           SectionOfHash(new_entries,
                                         old_entries[old_para_to_section[k]][1]))])

_find_moved_paragraphs(old_sections, new_sections) ==
    MovedOf(old_sections, new_sections,
            ParagraphEntries(old_sections), ParagraphEntries(new_sections),
            DictPositions([i \in 1..Len(ParagraphEntries(old_sections)) |->
                              ParagraphEntries(old_sections)[i][1]]))

Count(s, Test(_)) == Len(SelectSeq(s, Test))

\* what one paragraph change of a MODIFIED section adds to the summary
ParagraphTally(c) ==
    LET word_diff == IF c.change_type = "modified"
                     THEN c.new_paragraph[1].word_count - c.old_paragraph[1].word_count
                     ELSE 0
    IN  [paragraphs_added |-> IF c.change_type = "added" THEN 1 ELSE 0,
         paragraphs_removed |-> IF c.change_type = "removed" THEN 1 ELSE 0,
         paragraphs_modified |-> IF c.change_type = "modified" THEN 1 ELSE 0,
         words_added |-> IF c.change_type = "added" THEN c.new_paragraph[1].word_count
                         ELSE IF word_diff > 0 THEN word_diff ELSE 0,
         words_removed |-> IF c.change_type = "removed" THEN c.old_paragraph[1].word_count
                           ELSE IF word_diff > 0 THEN 0 ELSE Abs(word_diff)]

\* what one section change adds to the summary
SectionTally(change) ==
    LET tallies == [k \in 1..Len(change.paragraph_changes) |->
                       ParagraphTally(change.paragraph_changes[k])]
        total(f) == IF change.change_type = "modified"
                    THEN SumSeq([k \in 1..Len(tallies) |-> tallies[k][f]])
                    ELSE 0
    IN  [paragraphs_added |->
             IF change.change_type = "added" THEN Len(change.new_section[1].paragraphs)
             ELSE total("paragraphs_added"),
         paragraphs_removed |->
             IF change.change_type = "removed" THEN Len(change.old_section[1].paragraphs)
             ELSE total("paragraphs_removed"),
         paragraphs_modified |-> total("paragraphs_modified"),
         words_added |->
             IF change.change_type = "added" THEN SectionWords(change.new_section[1])
             ELSE total("words_added"),
         words_removed |->
             IF change.change_type = "removed" THEN SectionWords(change.old_section[1])
             ELSE total("words_removed")]

Min(a, b) == IF a < b THEN a ELSE b
Max(a, b) == IF a > b THEN a ELSE b

\* "Calculate overall similarity", in percent
SimilarityPercentage(old_words, new_words, words_removed, words_added) ==
    IF old_words > 0 \/ new_words > 0
    THEN <<100 * Max(0, Min(old_words, new_words) - words_removed - words_added),
           Max(old_words, new_words)>>
    ELSE <<0, 1>>

SummaryOf(section_changes, moved_paragraphs, old_signature, new_signature, tallies) ==
    LET total(f) == SumSeq([k \in 1..Len(tallies) |-> tallies[k][f]])
    IN  [total_sections_added |-> Count(section_changes, LAMBDA c : c.change_type = "added"),
         total_sections_removed |-> Count(section_changes, LAMBDA c : c.change_type = "removed"),
         total_sections_modified |-> Count(section_changes, LAMBDA c : c.change_type = "modified"),
         total_paragraphs_added |-> total("paragraphs_added"),
         total_paragraphs_removed |-> total("paragraphs_removed"),
         total_paragraphs_modified |-> total("paragraphs_modified"),
         total_paragraphs_moved |-> Len(moved_paragraphs),
         total_words_added |-> total("words_added"),
         total_words_removed |-> total("words_removed"),
         similarity_percentage |->
             SimilarityPercentage(old_signature.total_words, new_signature.total_words,
                                  total("words_removed"), total("words_added"))]

_generate_summary(section_changes, moved_paragraphs, old_signature, new_signature) ==
    SummaryOf(section_changes, moved_paragraphs, old_signature, new_signature,
              [k \in 1..Len(section_changes) |-> SectionTally(section_changes[k])] \o <<>>)

MeetingDiff(old_signature, new_signature, section_changes, moved_paragraphs) ==
    [old_meeting_id |-> old_signature.meeting_id,
     new_meeting_id |-> new_signature.meeting_id,
     section_changes |-> section_changes,
     moved_paragraphs |-> moved_paragraphs,
     summary |-> _generate_summary(section_changes, moved_paragraphs,
                                   old_signature, new_signature)]

compare_meetings(old_signature, new_signature) ==
    MeetingDiff(old_signature, new_signature,
                _compare_sections(old_signature.sections, new_signature.sections),
                _find_moved_paragraphs(old_signature.sections, new_signature.sections))

(***************************************************************************)
(* Calls on one tracker instance.                                          *)
(***************************************************************************)
RelPaths == {"2024-W28/a.md", "2024-W29/b.md"}
PathArgs == [kind : {"relative", "inside", "outside"}, rel : RelPaths]

SeriesIds == {_generate_series_id(_generate_fingerprint(m)) : m \in Metadata}

\* limit of get_series_meetings: 0 for None
MeetingLimits == {0, 1}

InitTracker ==
    /\ series_registry = _load_series_registry(NoFile)
    /\ registry_file = NoFile
    /\ ret = [op |-> "init"]

InitRest ==
    /\ files = [p \in RelPaths |-> NoFile]
    /\ result = [op |-> "init"]
    /\ cache_files = [k \in CacheSlots |-> Absent]
    /\ use_compression = TRUE
    /\ cache_ret = [op |-> "init"]
    /\ signatures = [old |-> [text |-> <<>>, signature |-> create_content_signature("old", <<>>, "T0")],
                     new |-> [text |-> <<>>, signature |-> create_content_signature("new", <<>>, "T0")]]
    /\ diff = [op |-> "init"]
    /\ classified = [op |-> "init"]
    /\ instances = [t \in Trackers |->
                        [opened |-> FALSE, wrote |-> FALSE, registry |-> <<>>]]

Init == InitTracker /\ InitRest

\* what a call's outcome is judged against: the fingerprint fields that
\* decide a match, and the form of start_time
FpKey(meta) ==
    [normalized_title |-> _normalize_title(meta.title),
     organizer |-> meta.organizer,
     time_pattern |-> meta.start_time.slot,
     form |-> meta.start_time.form]

IdentifySeries(meta) ==
    LET r == identify_series(series_registry, meta)
    IN  /\ series_registry' = r.registry
        /\ ret' = [op |-> "identify_series", fp |-> FpKey(meta),
                   value |-> r.value, raised |-> r.raised]
        /\ UNCHANGED <<restVars, registry_file, extractorVars, cacheVars>>

CreateNewSeries(meta) ==
    LET r == create_new_series(series_registry, meta)
    IN  /\ r.value \in Keys(series_registry) \/ Len(series_registry) < MaxSeries
        /\ series_registry' = r.registry
        /\ registry_file' = _save_series_registry(r.registry)
        /\ ret' = [op |-> "create_new_series", value |-> r.value, raised |-> FALSE]
        /\ UNCHANGED <<restVars, extractorVars, cacheVars>>

AddMeetingToSeries(sid, arg, now) ==
    LET r == IF arg.kind = "outside"
             THEN [saved |-> FALSE, found |-> sid \in Keys(series_registry),
                   value |-> None, registry |-> series_registry]
             ELSE add_meeting_to_series(series_registry, sid, arg.rel, now)
    IN  /\ \A i \in DOMAIN series_registry :
               Len(series_registry[i].meetings) < MaxMeetings
        /\ series_registry' = r.registry
        /\ registry_file' = IF r.saved THEN _save_series_registry(r.registry)
                                       ELSE registry_file
        /\ ret' = [op |-> "add_meeting_to_series", series_id |-> sid,
                   known |-> sid \in Keys(series_registry),
                   value |-> r.value, raised |-> FALSE]
        /\ UNCHANGED <<restVars, extractorVars, cacheVars>>

GetLatestMeeting(sid) ==
    /\ ret' = [op |-> "get_latest_meeting", series_id |-> sid,
               known |-> sid \in Keys(series_registry),
               value |-> get_latest_meeting(series_registry, sid, files),
               raised |-> FALSE]
    /\ UNCHANGED <<restVars, series_registry, registry_file, extractorVars, cacheVars>>

GetSeriesMeetings(sid, limit) ==
    /\ ret' = [op |-> "get_series_meetings", series_id |-> sid,
               known |-> sid \in Keys(series_registry),
               value |-> get_series_meetings(series_registry, sid, limit, files),
               raised |-> FALSE]
    /\ UNCHANGED <<restVars, series_registry, registry_file, extractorVars, cacheVars>>

NextTracker ==
    \/ \E meta \in Metadata : IdentifySeries(meta)
    \/ \E meta \in Metadata : CreateNewSeries(meta)
    \/ \E sid \in SeriesIds, arg \in PathArgs, now \in Nows :
           AddMeetingToSeries(sid, arg, now)
    \/ \E sid \in SeriesIds : GetLatestMeeting(sid)
    \/ \E sid \in SeriesIds, limit \in MeetingLimits : GetSeriesMeetings(sid, limit)

SpecTracker == Init /\ [][NextTracker]_vars

(***************************************************************************)
(* One extractor on a notes directory: occurrences of a series are         *)
(* filtered, saved and registered.                                         *)
(***************************************************************************)
NotePaths == {"2024-W29/b.md"}

\* previous: what the matched series held when the call was made
ExtractNewContentOnly(meeting_metadata, documents) ==
    LET previous == PreviousData(series_registry,
                                 SeriesOf(series_registry, meeting_metadata), files)
        returned(r) ==
            /\ series_registry' = r.registry
            /\ registry_file' = IF r.created THEN _save_series_registry(r.registry)
                                             ELSE registry_file
            /\ result' = IF r.raised
                         THEN [op |-> "extract", raised |-> TRUE,
                               meeting_metadata |-> meeting_metadata,
                               documents |-> documents,
                               previous |-> previous]
                         ELSE [op |-> "extract", raised |-> FALSE,
                               meeting_metadata |-> meeting_metadata,
                               documents |-> documents,
                               previous |-> previous,
                               previous_file |->
                                   IF r.value.previous_meeting_path = None THEN NoFile
                                   ELSE files[r.value.previous_meeting_path],
                               value |-> r.value]
    IN  /\ returned(extract_new_content_only(series_registry, files,
                                             meeting_metadata, documents))
        /\ UNCHANGED <<restVars, ret, files, cacheVars>>

\* _save_meeting_notes followed by save_meeting_note: the occurrence's file
\* is written (start_time is a datetime here: strftime is called on it)
SaveMeetingNotes(meeting, notes, path) ==
    /\ meeting.start_time.form = "datetime"
    /\ files' = [files EXCEPT ![path] = save_meeting_note(meeting, notes)]
    /\ UNCHANGED <<restVars, trackerVars, result, cacheVars>>

NextExtractor ==
    \/ \E meta \in ExtractorMetadata, docs \in Occurrences :
           ExtractNewContentOnly(meta, docs)
    \/ \E meta \in ExtractorMetadata, notes \in Occurrences, path \in NotePaths :
           SaveMeetingNotes(meta, notes, path)
    \/ \E sid \in Keys(series_registry), arg \in PathArgs, now \in Nows :
           AddMeetingToSeries(sid, arg, now)

SpecExtractor == Init /\ [][NextExtractor]_vars

(***************************************************************************)
(* The same extractor on a notes directory whose files can become          *)
(* unreadable (permissions, bytes that are not UTF-8).                     *)
(***************************************************************************)
MakeUnreadable(path) ==
    /\ files[path] # NoFile
    /\ files[path] # Unreadable
    /\ files' = [files EXCEPT ![path] = Unreadable]
    /\ UNCHANGED <<restVars, trackerVars, result, cacheVars>>

NextExtractorFault ==
    \/ \E meta \in ExtractorMetadata, docs \in Occurrences :
           ExtractNewContentOnly(meta, docs)
    \/ \E meta \in ExtractorMetadata, notes \in Occurrences, path \in NotePaths :
           SaveMeetingNotes(meta, notes, path)
    \/ \E sid \in Keys(series_registry), arg \in PathArgs, now \in Nows :
           AddMeetingToSeries(sid, arg, now)
    \/ \E path \in NotePaths : MakeUnreadable(path)

SpecExtractorFault == Init /\ [][NextExtractorFault]_vars

(***************************************************************************)
(* Calls on one MeetingContentCache.                                        *)
(***************************************************************************)
StoreContentSignature(series_id, meeting_date, signature) ==
    /\ \/ cache_files[Path(series_id, meeting_date, use_compression)].exists
       \/ Cardinality({k \in CacheSlots : cache_files[k].exists}) < MaxFiles
    /\ cache_files' = store_content_signature(cache_files, use_compression, series_id,
                                              meeting_date, signature).files
    /\ cache_ret' = [op |-> "store", series_id |-> series_id,
                     meeting_date |-> meeting_date, signature |-> signature,
                     value |-> store_content_signature(cache_files, use_compression,
                                   series_id, meeting_date, signature).value]
    /\ UNCHANGED <<restVars, trackerVars, extractorVars, use_compression>>

\* cache.use_compression = compression, by the owner of the cache
SetUseCompression(compression) ==
    /\ use_compression # compression
    /\ use_compression' = compression
    /\ cache_ret' = [op |-> "use_compression"]
    /\ UNCHANGED <<restVars, trackerVars, extractorVars, cache_files>>

\* after_store: the call before was the store of this key
GetContentSignature(series_id, meeting_date) ==
    /\ cache_ret' = [op |-> "get", series_id |-> series_id,
                     meeting_date |-> meeting_date,
                     after_store |-> /\ cache_ret.op = "store"
                                     /\ cache_ret.series_id = series_id
                                     /\ cache_ret.meeting_date = meeting_date,
                     result |-> get_content_signature(cache_files, use_compression,
                                                      series_id, meeting_date)]
    /\ UNCHANGED <<restVars, trackerVars, extractorVars, cache_files, use_compression>>

GetLatestSignatures(series_id, limit) ==
    /\ cache_ret' = [op |-> "get_latest", series_id |-> series_id, limit |-> limit,
                     value |-> get_latest_signatures(cache_files, use_compression,
                                                     series_id, limit)]
    /\ UNCHANGED <<restVars, trackerVars, extractorVars, cache_files, use_compression>>

GetSignaturesInRange(series_id, start_date, end_date) ==
    /\ cache_ret' = [op |-> "get_range", series_id |-> series_id,
                     start_date |-> start_date, end_date |-> end_date,
                     value |-> get_signatures_in_range(cache_files, use_compression,
                                   series_id, start_date, end_date)]
    /\ UNCHANGED <<restVars, trackerVars, extractorVars, cache_files, use_compression>>

GetCacheStatistics ==
    /\ cache_ret' = [op |-> "statistics", value |-> get_cache_statistics(cache_files)]
    /\ UNCHANGED <<restVars, trackerVars, extractorVars, cache_files, use_compression>>

\* the environment damages one file of the cache: a write cut short, a file
\* that cannot be opened, or a record without its meeting_id
DamageKinds == {"truncated", "unreadable", "no_meeting_id"}
DamageFile(k, kind) ==
    /\ cache_files[k].exists
    /\ \A x \in CacheSlots : cache_files[x].damage = "none"
    /\ cache_files' = [cache_files EXCEPT
           ![k].damage = kind,
           ![k].readable = (kind # "unreadable"),
           ![k].text = IF kind = "truncated" THEN SubSeq(@, 1, Len(@) - 1)
                       ELSE IF kind = "no_meeting_id"
                       THEN json_dump(J("dict", Tail(_signature_to_dict(
                                cache_files[k].signature).v)))
                       ELSE @]
    /\ cache_ret' = [op |-> "damage"]
    /\ UNCHANGED <<restVars, trackerVars, extractorVars, use_compression>>

NextCache ==
    \/ \E s \in CacheSeries, d \in CacheDates, sig \in Signatures :
           StoreContentSignature(s, d, sig)
    \/ \E c \in BOOLEAN : SetUseCompression(c)
    \/ \E s \in CacheSeries, d \in CacheDates : GetContentSignature(s, d)
    \/ \E s \in CacheSeries, limit \in Limits : GetLatestSignatures(s, limit)
    \/ GetCacheStatistics

SpecCache == Init /\ [][NextCache]_vars

\* the cache under one setting of use_compression, with damaged files
NextCacheFault ==
    \/ \E s \in CacheSeries, d \in CacheDates, sig \in Signatures :
           StoreContentSignature(s, d, sig)
    \/ \E k \in CacheSlots, kind \in DamageKinds : DamageFile(k, kind)
    \/ \E s \in CacheSeries, d \in CacheDates : GetContentSignature(s, d)
    \/ \E s \in CacheSeries, limit \in Limits : GetLatestSignatures(s, limit)
    \/ \E s \in CacheSeries, d1 \in CacheDates, d2 \in CacheDates :
           GetSignaturesInRange(s, d1, d2)

SpecCacheFault == Init /\ [][NextCacheFault]_vars

(***************************************************************************)
(* Calls on one ContentHasher and one DiffEngine: two signatures are built *)
(* from meeting texts and compared.                                        *)
(***************************************************************************)
\* ''
NoText == <<>>
\* '# Action Items\n- Alice to review docs'
ActionItems == <<"#", " ", "A", "c", "t", "i", "o", "n", " ", "I", "t", "e", "m", "s", "\n", "-", " ", "A", "l", "i", "c", "e", " ", "t", "o", " ", "r", "e", "v", "i", "e", "w", " ", "d", "o", "c", "s">>
\* '# Action Items\n- Alice to review docs\n- Bob to update API'
ActionItemsMore == <<"#", " ", "A", "c", "t", "i", "o", "n", " ", "I", "t", "e", "m", "s", "\n", "-", " ", "A", "l", "i", "c", "e", " ", "t", "o", " ", "r", "e", "v", "i", "e", "w", " ", "d", "o", "c", "s", "\n", "-", " ", "B", "o", "b", " ", "t", "o", " ", "u", "p", "d", "a", "t", "e", " ", "A", "P", "I">>
\* '# A\n- x'
ListUnderA == <<"#", " ", "A", "\n", "-", " ", "x">>
\* '# A\n- x\n- y'
LongerListUnderA == <<"#", " ", "A", "\n", "-", " ", "x", "\n", "-", " ", "y">>
\* '# B\n- x'
ListUnderB == <<"#", " ", "B", "\n", "-", " ", "x">>
\* '# A\n- x\n\n# B\ny'
TwoSections == <<"#", " ", "A", "\n", "-", " ", "x", "\n", "\n", "#", " ", "B", "\n", "y">>
\* '# A\nz\n\n# B\n- x'
TwoSectionsMoved == <<"#", " ", "A", "\n", "z", "\n", "\n", "#", " ", "B", "\n", "-", " ", "x">>
\* '# A\nx\n\n# A\ny'
HeaderTwice == <<"#", " ", "A", "\n", "x", "\n", "\n", "#", " ", "A", "\n", "y">>
\* 'a b'
TwoWords == <<"a", " ", "b">>
\* ' a  b'
TwoWordsWide == <<" ", "a", " ", " ", "b">>
\* 'A b'
TwoWordsCapital == <<"A", " ", "b">>
\* 'notes\nx'
NotesLower == <<"n", "o", "t", "e", "s", "\n", "x">>
\* 'NOTES\nx'
NotesUpper == <<"N", "O", "T", "E", "S", "\n", "x">>
\* 'a\n\nb'
TwoParagraphs == <<"a", "\n", "\n", "b">>
\* 'a\n \nb'
TwoParagraphsBlank == <<"a", "\n", " ", "\n", "b">>

\* '# A\na b c d e f g h i\n\na b c d e f g h': a paragraph and, after it, its
\* shorter twin
TwinLast == <<"#", " ", "A", "\n", "a", " ", "b", " ", "c", " ", "d", " ", "e", " ", "f", " ", "g", " ", "h", " ", "i", "\n", "\n", "a", " ", "b", " ", "c", " ", "d", " ", "e", " ", "f", " ", "g", " ", "h">>
\* '# A\na b c d e f g h\n\na b c d e f g h i'
TwinFirst == <<"#", " ", "A", "\n", "a", " ", "b", " ", "c", " ", "d", " ", "e", " ", "f", " ", "g", " ", "h", "\n", "\n", "a", " ", "b", " ", "c", " ", "d", " ", "e", " ", "f", " ", "g", " ", "h", " ", "i">>
\* '# A\na b c d e f g h'
TwinOnly == <<"#", " ", "A", "\n", "a", " ", "b", " ", "c", " ", "d", " ", "e", " ", "f", " ", "g", " ", "h">>
\* '# A\n\n# B\nx': a header with nothing under it
HeaderOnly == <<"#", " ", "A", "\n", "\n", "#", " ", "B", "\n", "x">>
Texts == {NoText, ActionItems, ActionItemsMore, ListUnderA,
          LongerListUnderA, ListUnderB, TwoSections, TwoSectionsMoved,
          HeaderTwice, TwoWords, TwoWordsWide, TwoWordsCapital, NotesLower,
          NotesUpper, TwoParagraphs, TwoParagraphsBlank, TwinLast, TwinFirst,
          TwinOnly, HeaderOnly}

Sides == {"old", "new"}

\* hasher.create_content_signature(slot, text, now): the signature replaces
\* the one held in the slot
\* create_content_signature of each text at each side, computed once
ContentSignatures ==
    {[text |-> text, signature |-> create_content_signature(slot, text, "T0")] :
        slot \in Sides, text \in Texts}

CreateContentSignature(slot, text) ==
    /\ signatures' = [signatures EXCEPT ![slot] =
                          CHOOSE c \in ContentSignatures :
                              c.text = text /\ c.signature.meeting_id = slot]
    /\ diff' = [op |-> "create_content_signature", meeting_id |-> slot]
    /\ UNCHANGED <<trackerVars, extractorVars, cacheVars, classified, instances>>

\* engine.compare_meetings(signatures[old], signatures[new])
CompareMeetings(old, new) ==
    /\ diff' = [op |-> "compare_meetings", old |-> old, new |-> new,
                value |-> compare_meetings(signatures[old].signature,
                                           signatures[new].signature)]
    /\ UNCHANGED <<trackerVars, extractorVars, cacheVars, signatures, classified,
                   instances>>

NextDiff ==
    \/ \E slot \in Sides, text \in Texts : CreateContentSignature(slot, text)
    \/ \E old \in Sides, new \in Sides : CompareMeetings(old, new)

SpecDiff == Init /\ [][NextDiff]_vars

(***************************************************************************)
(* Calls on one DocumentClassifier.                                        *)
(***************************************************************************)
\* ''
NoTitle == <<>>
\* 'Meeting Notes'
MeetingNotes == <<"M", "e", "e", "t", "i", "n", "g", " ", "N", "o", "t", "e", "s">>
\* 'Transcript'
TranscriptTitle == <<"T", "r", "a", "n", "s", "c", "r", "i", "p", "t">>
\* 'Roadmap'
RoadmapTitle == <<"R", "o", "a", "d", "m", "a", "p">>
\* 'Notes by Gemini'
NotesByGemini == <<"N", "o", "t", "e", "s", " ", "b", "y", " ", "G", "e", "m", "i", "n", "i">>
Titles == {NoTitle, MeetingNotes, TranscriptTitle, RoadmapTitle, NotesByGemini}

\* ''
NoUrl == <<>>
\* 'https://docs.google.com/document/d/xyz789/edit'
EditUrl == <<"h", "t", "t", "p", "s", ":", "/", "/", "d", "o", "c", "s", ".", "g", "o", "o", "g", "l", "e", ".", "c", "o", "m", "/", "d", "o", "c", "u", "m", "e", "n", "t", "/", "d", "/", "x", "y", "z", "7", "8", "9", "/", "e", "d", "i", "t">>
\* 'https://docs.google.com/document/d/abc123/edit?usp=meet_tnfm_calendar'
GeminiUrl == <<"h", "t", "t", "p", "s", ":", "/", "/", "d", "o", "c", "s", ".", "g", "o", "o", "g", "l", "e", ".", "c", "o", "m", "/", "d", "o", "c", "u", "m", "e", "n", "t", "/", "d", "/", "a", "b", "c", "1", "2", "3", "/", "e", "d", "i", "t", "?", "u", "s", "p", "=", "m", "e", "e", "t", "_", "t", "n", "f", "m", "_", "c", "a", "l", "e", "n", "d", "a", "r">>
\* 'https://d/x/view?usp=sharing'
SharedViewUrl == <<"h", "t", "t", "p", "s", ":", "/", "/", "d", "/", "x", "/", "v", "i", "e", "w", "?", "u", "s", "p", "=", "s", "h", "a", "r", "i", "n", "g">>
\* 'https://d/recording'
RecordingUrl == <<"h", "t", "t", "p", "s", ":", "/", "/", "d", "/", "r", "e", "c", "o", "r", "d", "i", "n", "g">>
Urls == {NoUrl, EditUrl, GeminiUrl, SharedViewUrl, RecordingUrl}

\* ''
NoContent == <<>>
\* 'x y z'
PlainContent == <<"x", " ", "y", " ", "z">>
\* 'Meeting started at 9'
StartedContent == <<"M", "e", "e", "t", "i", "n", "g", " ", "s", "t", "a", "r", "t", "e", "d", " ", "a", "t", " ", "9">>
\* 'Meeting ended at 10. Last updated today'
StartedUpdatedContent == <<"M", "e", "e", "t", "i", "n", "g", " ", "e", "n", "d", "e", "d", " ", "a", "t", " ", "1", "0", ".", " ", "L", "a", "s", "t", " ", "u", "p", "d", "a", "t", "e", "d", " ", "t", "o", "d", "a", "y">>
Contents == {NoContent, PlainContent, StartedContent, StartedUpdatedContent}

\* metadata as _score_metadata reads it: the shared flag and len(content)
Metadatas == [shared : BOOLEAN, content_length : {0, 6000}]

\* the scores and the outcome of classify_document for every input at hand,
\* computed once
Classifications ==
    {[title |-> title, url |-> url, content |-> content, metadata |-> metadata,
      scores |-> AggregateScores(title, url, content, metadata),
      value |-> classify_document(title, url, content, metadata)] :
        title \in Titles, url \in Urls, content \in Contents, metadata \in Metadatas}

\* classifier.classify_document(title, url, content, metadata)
ClassifyDocument(title, url, content, metadata) ==
    /\ classified' = [op |-> "classify_document"] @@
                      (CHOOSE c \in Classifications :
                           /\ c.title = title
                           /\ c.url = url
                           /\ c.content = content
                           /\ c.metadata = metadata)
    /\ UNCHANGED <<trackerVars, extractorVars, cacheVars, diffVars, instances>>

NextClassifier ==
    \E title \in Titles, url \in Urls, content \in Contents, metadata \in Metadatas :
        ClassifyDocument(title, url, content, metadata)

SpecClassifier == Init /\ [][NextClassifier]_vars

(***************************************************************************)
(* Two tracker instances opened on the same notes directory, their calls   *)
(* interleaved without serialization.  Each instance holds its own         *)
(* series_registry; the registry file is the one they share.               *)
(***************************************************************************)
\* occurrences of two series
WriterMetadata ==
    {m \in Metadata : /\ m.start_time.form = "datetime"
                      /\ m.organizer = "alice@company.com"
                      /\ m.start_time.slot = "TUE-09:00"
                      /\ _normalize_title(m.title) # <<>>}

WriterSeriesIds == {_generate_series_id(_generate_fingerprint(m)) : m \in WriterMetadata}

\* a file that keeps the entries of the old file the registry does not hold
MergedInto(file, registry) ==
    registry \o SelectSeq(_load_series_registry(file),
                          LAMBDA e : e.series_id \notin Keys(registry))

\* open(self.series_registry_file, 'w') and json.dump: the file is replaced
\* by the registry of the instance that saves
Written(file, registry) == _save_series_registry(registry)

\* MeetingSeriesTracker(notes_dir): the instance of t, a new one when t had
\* one already, loads the registry file; wrote tells that a mutation was
\* saved through t
Open(t) ==
    /\ instances' = [instances EXCEPT ![t] =
                         [opened |-> TRUE, wrote |-> instances[t].wrote,
                          registry |-> _load_series_registry(registry_file)]]
    /\ ret' = [op |-> "open", tracker |-> t, saved |-> FALSE]
    /\ UNCHANGED <<series_registry, registry_file, extractorVars, cacheVars, diffVars,
                   classified>>

\* the instance after a call that left it the registry, saved or not
After(t, registry, saved) ==
    [instances EXCEPT ![t].registry = registry,
                      ![t].wrote = instances[t].wrote \/ saved]

CreateNewSeriesOn(t, meta) ==
    LET r == create_new_series(instances[t].registry, meta)
    IN  /\ instances[t].opened
        /\ r.value \in Keys(instances[t].registry)
               \/ Len(instances[t].registry) < MaxSeries
        /\ instances' = After(t, r.registry, TRUE)
        /\ registry_file' = Written(registry_file, r.registry)
        /\ ret' = [op |-> "create_new_series", tracker |-> t, saved |-> TRUE]
        /\ UNCHANGED <<series_registry, extractorVars, cacheVars, diffVars, classified>>

AddMeetingToSeriesOn(t, sid, path, now) ==
    LET r == add_meeting_to_series(instances[t].registry, sid, path, now)
    IN  /\ instances[t].opened
        /\ \A i \in DOMAIN instances[t].registry :
               Len(instances[t].registry[i].meetings) < MaxMeetings
        /\ instances' = After(t, r.registry, r.saved)
        /\ registry_file' = IF r.saved THEN Written(registry_file, r.registry)
                                       ELSE registry_file
        /\ ret' = [op |-> "add_meeting_to_series", tracker |-> t, saved |-> r.saved]
        /\ UNCHANGED <<series_registry, extractorVars, cacheVars, diffVars, classified>>

NextTwoTrackers ==
    \/ \E t \in Trackers : Open(t)
    \/ \E t \in Trackers, meta \in WriterMetadata : CreateNewSeriesOn(t, meta)
    \/ \E t \in Trackers, sid \in WriterSeriesIds, path \in RelPaths, now \in Nows :
           AddMeetingToSeriesOn(t, sid, path, now)

SpecTwoTrackers == Init /\ [][NextTwoTrackers]_vars

(***************************************************************************)
(* Calls on _extract_persistent_doc_changes: one Persistent document of    *)
(* the current occurrence against the documents split from the previous    *)
(* meeting file.                                                           *)
(***************************************************************************)
MaxPreviousDocs == 2

PlanUrl == <<"h", "t", "t", "p", "s", ":", "/", "/", "d", "/", "1">>
MovedUrl == <<"h", "t", "t", "p", "s", ":", "/", "/", "d", "/", "9">>

\* contents of the current document: one section, a second section of ten
\* words, a second section of three words, the first section rewritten, no
\* header at all, lines before the first header
OneSection == <<"#", " ", "Q", "3", "\n", "a", " ", "b", " ", "c", " ", "d", " ", "e", " ", "f", " ", "g", " ", "h", " ", "i", " ", "j">>
TwoSectionsLong == <<"#", " ", "Q", "3", "\n", "a", " ", "b", " ", "c", " ", "d", " ", "e", " ", "f", " ", "g", " ", "h", " ", "i", " ", "j", "\n", "#", " ", "Q", "4", "\n", "k", " ", "l", " ", "m", " ", "n", " ", "o", " ", "p", " ", "q", " ", "r", " ", "s", " ", "t">>
TwoSectionsShort == <<"#", " ", "Q", "3", "\n", "a", " ", "b", " ", "c", " ", "d", " ", "e", " ", "f", " ", "g", " ", "h", " ", "i", " ", "j", "\n", "#", " ", "Q", "4", "\n", "k", " ", "l", " ", "m">>
OneSectionRewritten == <<"#", " ", "Q", "3", "\n", "z", " ", "y", " ", "x", " ", "w", " ", "v", " ", "u", " ", "t", " ", "s", " ", "r", " ", "q">>
NoHeader == <<"a", " ", "b", " ", "c", " ", "d", " ", "e", " ", "f", " ", "g", " ", "h", " ", "i", " ", "j", " ", "k">>
NoHeaderRewritten == <<"z", " ", "y", " ", "x", " ", "w", " ", "v", " ", "u", " ", "t", " ", "s", " ", "r", " ", "q", " ", "p">>
LeadingLines == <<"i", "n", "t", "r", "o", "\n", "#", " ", "Q", "3", "\n", "a", " ", "b", " ", "c", " ", "d", " ", "e", " ", "f", " ", "g", " ", "h", " ", "i", " ", "j", "\n", "#", " ", "Q", "4", "\n", "k", " ", "l", " ", "m", " ", "n", " ", "o", " ", "p", " ", "q", " ", "r", " ", "s", " ", "t">>

CurrentContents ==
    {OneSection, TwoSectionsLong, TwoSectionsShort, OneSectionRewritten,
     NoHeader, LeadingLines}

PlanTitle == <<"R", "o", "a", "d", "m", "a", "p", " ", "2", "4">>

\* DocumentInfo values of type Persistent: the document under its URL with
\* each content, and under another URL
CurrentDocs ==
    {[title |-> PlanTitle, url |-> PlanUrl, content |-> content, doc_type |-> "persistent"] :
        content \in CurrentContents}
    \cup {[title |-> PlanTitle, url |-> MovedUrl, content |-> content, doc_type |-> "persistent"] :
              content \in {OneSection, TwoSectionsLong}}

\* documents of the previous file: the same title and URL, a title at
\* similarity 0.7 and one at 0.9 under other URLs, another title under the
\* same URL
PreviousDocs ==
    {[title |-> PlanTitle, url |-> PlanUrl, content |-> OneSection],
     [title |-> <<"R", "o", "a", "d", "m", "a", "p", "-", "Q", "3">>, url |-> <<"h", "t", "t", "p", "s", ":", "/", "/", "d", "/", "2">>, content |-> OneSection],
     [title |-> <<"R", "o", "a", "d", "m", "a", "p", " ", "2", "5">>, url |-> <<"h", "t", "t", "p", "s", ":", "/", "/", "d", "/", "3">>, content |-> NoHeaderRewritten],
     [title |-> <<"B", "a", "c", "k", "l", "o", "g">>, url |-> PlanUrl, content |-> NoHeaderRewritten]}

PreviousLists ==
    UNION {[1..n -> PreviousDocs] : n \in 0..MaxPreviousDocs}

\* _find_matching_previous_doc and _extract_persistent_doc_changes of each
\* document against each list, computed once; value is what the loop of
\* _extract_new_content_vs_previous appends
PersistentDocChanges ==
    {[current_doc |-> current_doc,
      previous_docs |-> previous_docs,
      previous_doc |-> _find_matching_previous_doc(current_doc, previous_docs),
      value |-> NonEmpty(_extract_persistent_doc_changes(current_doc, previous_docs))] :
        current_doc \in CurrentDocs, previous_docs \in PreviousLists}

ExtractPersistentDocChanges(current_doc, previous_docs) ==
    /\ result' = [op |-> "_extract_persistent_doc_changes"]
                  @@ (CHOOSE c \in PersistentDocChanges :
                          /\ c.current_doc = current_doc
                          /\ c.previous_docs = previous_docs)
    /\ UNCHANGED <<restVars, trackerVars, files, cacheVars>>

NextPersistent ==
    \E current_doc \in CurrentDocs, previous_docs \in PreviousLists :
        ExtractPersistentDocChanges(current_doc, previous_docs)

SpecPersistent == Init /\ [][NextPersistent]_vars

(***************************************************************************)
(* GoogleMeetFetcher: one fetcher on a notes directory.  The fetcher holds *)
(* its own tracker (instances[FetcherTracker]) and an extractor whose      *)
(* tracker is series_registry; both are loaded from the registry file when *)
(* the fetcher is constructed.                                             *)
(***************************************************************************)
FetcherTracker == "t1"

\* strftime('%Y-W%U') of the dates of DateTexts: weeks begin on Sunday and
\* the days before the first Sunday of the year are in week 0
SundayWeekTexts ==
    <<<<"2", "0", "2", "4", "-", "W", "2", "8">>,
      <<"2", "0", "2", "4", "-", "W", "2", "9">>,
      <<"2", "0", "2", "4", "-", "W", "3", "0">>,
      <<"2", "0", "2", "4", "-", "W", "3", "1">>,
      <<"2", "0", "2", "7", "-", "W", "2", "8">>,
      <<"2", "0", "2", "7", "-", "W", "2", "9">>,
      <<"2", "0", "2", "7", "-", "W", "3", "0">>>>

RECURSIVE PathText(_)
\* a path of the notes directory as the string the registry and the
\* directory hold
PathText(s) == IF s = <<>> THEN "" ELSE s[1] \o PathText(Tail(s))

\* strftime('%Y%m%d_%H%M%S')
Stamp(start_time) ==
    SelectSeq(DateTexts[start_time.date], LAMBDA c : c # "-") \o <<"_">>
        \o SelectSeq(ClockText(start_time.slot), LAMBDA c : c # ":") \o <<"0", "0">>

RECURSIVE SplitWhitespace(_)
\* s.split(): the maximal runs of non-whitespace
SplitWhitespace(s) ==
    LET solid == {i \in 1..Len(s) : s[i] \notin Whitespace}
    IN  IF solid = {} THEN <<>>
        ELSE LET first == CHOOSE i \in solid : \A j \in solid : i <= j
                 after == {i \in first..Len(s) : s[i] \in Whitespace}
                 stop == IF after = {} THEN Len(s) + 1
                         ELSE CHOOSE i \in after : \A j \in after : i <= j
             IN  <<SubSeq(s, first, stop - 1)>>
                     \o SplitWhitespace(SubSeq(s, stop, Len(s)))

\* FileOrganizer._clean_title: lower case, only alphanumerics, spaces,
\* hyphens and underscores kept, runs of whitespace turned into one
\* underscore, the first 50 characters
_clean_title(title) ==
    LET kept == SelectSeq(Lower(title),
                          LAMBDA c : \/ c \in Range(LowerCase)
                                     \/ c \in Digits
                                     \/ c \in {" ", "-", "_"})
        clean == Join(SplitWhitespace(kept), <<"_">>)
    IN  SubSeq(clean, 1, IF Len(clean) < 50 THEN Len(clean) ELSE 50)

\* FileOrganizer.get_file_path: the ISO week directory and the file name
get_file_path(meeting) ==
    PathText(WeekTexts[meeting.start_time.date] \o <<"/", "m", "e", "e", "t", "i", "n", "g", "_">>
                 \o Stamp(meeting.start_time) \o <<"_">>
                 \o _clean_title(TitleText(meeting.title))
                 \o <<".", "m", "d">>)

\* meeting_file_path of process_meeting_notes, the reference it registers:
\* the %U week and title.lower().replace(' ', '_')
meeting_file_path(meeting) ==
    PathText(SundayWeekTexts[meeting.start_time.date]
                 \o <<"/", "m", "e", "e", "t", "i", "n", "g", "_">>
                 \o Stamp(meeting.start_time) \o <<"_">>
                 \o [i \in 1..Len(TitleText(meeting.title)) |->
                        IF Lower(TitleText(meeting.title))[i] = " " THEN "_"
                        ELSE Lower(TitleText(meeting.title))[i]]
                 \o <<".", "m", "d">>)

\* the meetings the fetcher processes: two series of one organizer and slot,
\* on successive Tuesdays of 2024 and of 2027
FetcherTitles == {<<"alpha", "beta", "gamma", "delta", "sync">>,
                  <<"weekly", "standup", "-", "week", "29">>}
FetcherDates == {1, 2, 3, 5, 6, 7}

FetcherMeetings ==
    [title : FetcherTitles, organizer : {"alice@company.com"},
     start_time : [form : {"datetime"}, date : FetcherDates, slot : {"TUE-09:00"}],
     attendees : AttendeeLists]

\* the roadmap with its first section rewritten and its second one kept
RoadmapRevised ==
    [title |-> <<"R", "o", "a", "d", "m", "a", "p">>,
     url |-> <<"h", "t", "t", "p", "s", ":", "/", "/", "d", "/", "1">>,
     content |-> <<"#", " ", "Q", "3", "\n", "z", " ", "y", " ", "x", " ", "w", " ", "v", " ", "u", " ", "t", " ", "s", " ", "r", " ", "q", "\n", "#", " ", "Q", "4", "\n", "k", " ", "l", " ", "m", " ", "n", " ", "o", " ", "p", " ", "q", " ", "r", " ", "s", " ", "t">>,
     metadata |-> PlainMetadata]

\* the roadmap as plain lines without a markdown header
RoadmapPlain ==
    [title |-> <<"R", "o", "a", "d", "m", "a", "p">>,
     url |-> <<"h", "t", "t", "p", "s", ":", "/", "/", "d", "/", "1">>,
     content |-> <<"a", " ", "b", " ", "c", " ", "d", " ", "e", " ", "f", " ", "g", " ", "h", " ", "i", " ", "j", " ", "k">>,
     metadata |-> PlainMetadata]

\* the documents attached to an occurrence of each series
FetcherOccurrences(title) ==
    IF title = <<"alpha", "beta", "gamma", "delta", "sync">>
    THEN {<<Transcript, RoadmapNextQuarter>>, <<Transcript, RoadmapRevised>>,
          <<Transcript, RoadmapPlain>>, <<RoadmapNextQuarter>>}
    ELSE {<<Transcript>>}

\* what the model remembers of the occurrences processed so far: for each
\* series the documents of its latest processed occurrence and the sections
\* of Persistent documents emitted for it, as <<url, title, content>>
NoChain == [t \in FetcherTitles |-> [documents |-> <<>>, emitted |-> {}]]
Chain(r) == IF "chain" \in DOMAIN r THEN r.chain ELSE NoChain
LastDate(r) == IF "date" \in DOMAIN r THEN r.date ELSE 0

\* the occurrences are those of successive weeks, from the first Tuesday of
\* either year on
FirstDates == {1, 5}
NextDates(last) == IF last = 0 THEN FirstDates ELSE {last + 1}

\* the sections of a text as <<title, content>> pairs
SectionsOf(content) ==
    {<<s.title, Strip(s.content)>> : s \in Range(_parse_content_sections(content))}

\* the sections the notes hold of Persistent documents
EmittedSections(notes) ==
    UNION {{<<notes[i].url, s[1], s[2]>> : s \in SectionsOf(notes[i].content)} :
              i \in {k \in DOMAIN notes : notes[k].doc_type = "persistent"}}

\* GoogleMeetFetcher.__init__: the fetcher's tracker and the extractor's
\* tracker are constructed on the output directory, each loading the file
NewFetcher ==
    /\ instances' = [instances EXCEPT ![FetcherTracker] =
                         [opened |-> TRUE, wrote |-> FALSE,
                          registry |-> _load_series_registry(registry_file)]]
    /\ series_registry' = _load_series_registry(registry_file)
    /\ result' = [op |-> "__init__", chain |-> Chain(result), date |-> LastDate(result)]
    /\ UNCHANGED <<registry_file, ret, files, cacheVars, diffVars, classified>>

\* the notes process_meeting_notes goes on with
UnfilteredNotes(documents) ==
    [i \in DOMAIN documents |->
        [title |-> documents[i].title, url |-> documents[i].url,
         content |-> documents[i].content, doc_type |-> "unfiltered"]] \o <<>>

FilteredNotes(value) ==
    IF value.has_new_content
    THEN [i \in DOMAIN value.filtered_documents |->
             [title |-> value.filtered_documents[i].title,
              url |-> value.filtered_documents[i].original_url,
              content |-> value.filtered_documents[i].filtered_content,
              doc_type |-> value.filtered_documents[i].doc_type]] \o <<>>
    ELSE <<>>

\* a is what add_meeting_to_series returned for the reference
Registered(value, file, a, path) ==
    [registry |-> a.registry,
     file |-> IF a.saved THEN _save_series_registry(a.registry) ELSE file,
     filtered |-> TRUE, registered |-> path, value |-> value,
     notes |-> FilteredNotes(value)]

\* f is what extract_new_content_only returned, file the registry file
\* after it
AfterExtract(f, file, meeting, documents, now) ==
    IF f.raised
    THEN [registry |-> f.registry, file |-> file, filtered |-> FALSE,
          registered |-> None, value |-> None, notes |-> UnfilteredNotes(documents)]
    ELSE IF f.value.has_new_content
    THEN Registered(f.value, file,
                    add_meeting_to_series(f.registry, f.value.series_id,
                                          meeting_file_path(meeting), now),
                    meeting_file_path(meeting))
    ELSE [registry |-> f.registry, file |-> file, filtered |-> TRUE,
          registered |-> None, value |-> f.value, notes |-> <<>>]

Extracted(f, file, meeting, documents, now) ==
    AfterExtract(f, IF f.created THEN _save_series_registry(f.registry) ELSE file,
                 meeting, documents, now)

\* the smart filtering block of process_meeting_notes on the extractor's
\* tracker: [registry, file, notes, filtered, registered, value]; an
\* exception of the block leaves the notes unfiltered
SmartFiltering(registry, file, dir, meeting, documents, now) ==
    Extracted(extract_new_content_only(registry, dir, meeting, documents),
              file, meeting, documents, now)

\* found is what identify_series returned on the fetcher's tracker
Identified(found, file, meeting) ==
    IF found.raised \/ found.value # None
    THEN [registry |-> found.registry, file |-> file, known |-> TRUE]
    ELSE [registry |-> create_new_series(found.registry, meeting).registry,
          file |-> _save_series_registry(
                       create_new_series(found.registry, meeting).registry),
          known |-> FALSE]

\* the tracker calls of _save_meeting_notes outside diff mode, on the
\* fetcher's own tracker: [registry, file, known]; create_new_series saves
\* the registry of that tracker, and the AttributeError of the missing
\* store_meeting_content_signature is caught
StoreSignature(registry, file, meeting) ==
    Identified(identify_series(registry, meeting), file, meeting)

\* s is the outcome of the smart filtering, t that of the tracker calls of
\* _save_meeting_notes, before what was remembered of the series
Processed(meeting, documents, s, t, before) ==
    /\ series_registry' = s.registry
    /\ instances' = [instances EXCEPT ![FetcherTracker].registry = t.registry,
                                      ![FetcherTracker].wrote = @ \/ ~t.known]
    /\ registry_file' = t.file
    /\ files' = IF s.notes # <<>>
                THEN (get_file_path(meeting) :> save_meeting_note(meeting, s.notes))
                         @@ files
                ELSE files
    /\ result' = [op |-> "process_meeting_notes",
                  meeting |-> meeting,
                  documents |-> documents,
                  preceding |-> before.documents,
                  emitted_before |-> before.emitted,
                  filtered |-> s.filtered,
                  value |-> s.value,
                  notes |-> s.notes,
                  saved |-> s.notes # <<>>,
                  registered |-> s.registered,
                  known |-> t.known,
                  chain |-> [Chain(result) EXCEPT ![meeting.title] =
                                [documents |-> documents,
                                 emitted |-> before.emitted
                                                 \cup EmittedSections(s.notes)]],
                  date |-> meeting.start_time.date]
    /\ UNCHANGED <<ret, cacheVars, diffVars, classified>>

\* _save_meeting_notes is called when there are notes to save
Saved(meeting, documents, s) ==
    Processed(meeting, documents, s,
              IF s.notes # <<>>
              THEN StoreSignature(instances[FetcherTracker].registry, s.file, meeting)
              ELSE [registry |-> instances[FetcherTracker].registry, file |-> s.file,
                    known |-> TRUE],
              Chain(result)[meeting.title])

\* process_meeting_notes(meeting, save_to_file=True, smart_filtering=True)
\* for a meeting whose documents were converted: the occurrence is filtered
\* and registered through the extractor's tracker, its notes are saved, and
\* the fetcher's tracker identifies or creates the series
ProcessMeetingNotes(meeting, documents, now) ==
    /\ instances[FetcherTracker].opened
    /\ meeting.start_time.date \in NextDates(LastDate(result))
    /\ Saved(meeting, documents,
             SmartFiltering(series_registry, registry_file, files, meeting,
                            documents, now))

NextFetcher ==
    \/ NewFetcher
    \/ \E meeting \in FetcherMeetings, now \in Nows :
           \E documents \in FetcherOccurrences(meeting.title) :
               ProcessMeetingNotes(meeting, documents, now)

SpecFetcher == Init /\ [][NextFetcher]_vars

(***************************************************************************)
(* Properties of the tracker.                                              *)
(***************************************************************************)
\* the match rule as the specification words it: token Jaccard >= 0.8, two
\* empty normalized titles counting as similarity 1
JaccardAtLeast08(t1, t2) ==
    IF Range(t1) \cup Range(t2) = {} THEN TRUE
    ELSE 10 * Cardinality(Range(t1) \cap Range(t2))
            >= 8 * Cardinality(Range(t1) \cup Range(t2))

RuleHits(fp) ==
    {i \in DOMAIN series_registry :
        /\ series_registry[i].organizer = fp.organizer
        /\ series_registry[i].time_pattern = fp.time_pattern
        /\ JaccardAtLeast08(series_registry[i].normalized_title, fp.normalized_title)}

\* C4: identify_series returns a series id if and only if some registered
\* series has the same organizer, the same time_pattern and a normalized-title
\* token Jaccard of at least 0.8 with the occurrence, and the series returned
\* is such a series (so a different organizer or time slot alone gives none).
C4_MatchRule ==
    ret.op = "identify_series" =>
        /\ (ret.value # None) <=> (RuleHits(ret.fp) # {})
        /\ ret.value # None =>
               \E i \in RuleHits(ret.fp) : series_registry[i].series_id = ret.value

\* C4 for occurrences whose start_time is a datetime object: the rule holds
C4_MatchRuleDatetime ==
    (ret.op = "identify_series" /\ ret.fp.form = "datetime") =>
        /\ ~ret.raised
        /\ (ret.value # None) <=> (RuleHits(ret.fp) # {})
        /\ ret.value # None =>
               \E i \in RuleHits(ret.fp) : series_registry[i].series_id = ret.value

\* C5: over any sequence of tracker calls no series id disappears from the
\* registry and the meetings list of every series only grows by appending.
C5_SeriesOnlyGrow ==
    [][\A i \in DOMAIN series_registry :
          LET sid == series_registry[i].series_id
          IN  /\ sid \in Keys(series_registry')
              /\ IsPrefix(series_registry[i].meetings,
                          Lookup(series_registry', sid).meetings)]_vars

\* C6: after every tracker call the persisted registry equals the in-memory
\* registry: a new tracker on the same directory loads the same records.
C6_PersistedEqualsMemory ==
    ret.op # "init" => _load_series_registry(registry_file) = series_registry

\* the calls that take the id of an existing series
SeriesCalls == {"add_meeting_to_series", "get_latest_meeting", "get_series_meetings"}

\* a registry that holds one series without meetings
OneEmptySeries ==
    create_new_series(<<>>, CHOOSE m \in Metadata : m.start_time.form = "datetime").registry

\* what the call returns for an existing series that has no meetings
OnEmptySeries(op) ==
    IF op = "get_latest_meeting"
    THEN get_latest_meeting(OneEmptySeries, OneEmptySeries[1].series_id, files)
    ELSE IF op = "get_series_meetings"
    THEN get_series_meetings(OneEmptySeries, OneEmptySeries[1].series_id, 0, files)
    ELSE add_meeting_to_series(OneEmptySeries, OneEmptySeries[1].series_id,
                               "2024-W28/a.md", <<0, "NOW">>).value

\* the step is one of the calls, made with a series_id not in the registry
UnknownSeriesCall ==
    /\ ret'.op \in SeriesCalls
    /\ ~ret'.known

\* C16: add_meeting_to_series, get_latest_meeting and get_series_meetings
\* called with a series_id that is not in the registry report the error
\* explicitly to the caller, with an outcome distinguishable from the outcome
\* of the same call on an existing series that has no meetings, and they
\* leave the registry and the persisted file unchanged.
C16_UnknownSeriesReported ==
    [][UnknownSeriesCall =>
          /\ ret'.raised \/ ret'.value # OnEmptySeries(ret'.op)
          /\ series_registry' = series_registry
          /\ registry_file' = registry_file]_vars

\* C16 for the registry and the persisted file alone: a call with an unknown
\* series_id changes neither
C16_UnknownSeriesUnchanged ==
    [][UnknownSeriesCall =>
          /\ series_registry' = series_registry
          /\ registry_file' = registry_file]_vars

(***************************************************************************)
(* SmartContentExtractor: properties of extract_new_content_only.           *)
(***************************************************************************)
\* the result of a call that found no registered series matching the
\* occurrence (judged in the state before the call)
FirstOccurrence ==
    /\ result'.op = "extract"
    /\ result' # result
    /\ RuleHits(FpKey(result'.meeting_metadata)) = {}

\* C1: when extract_new_content_only is called for metadata that matches no
\* registered series, it creates the series and returns has_new_content = True,
\* content_reduction_percentage = 0, filtered_word_count = original_word_count,
\* previous_meeting_path = none and one filtered document per input document,
\* in input order, each carrying the input content unchanged.
C1_FirstOccurrence ==
    [][FirstOccurrence =>
          /\ ~result'.raised
          /\ result'.value.series_id \in Keys(series_registry')
          /\ result'.value.series_id \notin Keys(series_registry)
          /\ Len(series_registry') = Len(series_registry) + 1
          /\ _load_series_registry(registry_file') = series_registry'
          /\ result'.value.has_new_content
          /\ result'.value.content_reduction_percentage[1] = 0
          /\ result'.value.filtered_word_count = result'.value.original_word_count
          /\ result'.value.original_word_count =
                 TotalWords([i \in DOMAIN result'.documents |->
                                result'.documents[i].content])
          /\ result'.value.previous_meeting_path = None
          /\ Len(result'.value.filtered_documents) = Len(result'.documents)
          /\ \A i \in DOMAIN result'.documents :
                 /\ result'.value.filtered_documents[i].title = result'.documents[i].title
                 /\ result'.value.filtered_documents[i].original_url =
                        result'.documents[i].url
                 /\ result'.value.filtered_documents[i].filtered_content =
                        result'.documents[i].content]_vars

\* C1 happens: a first occurrence with two documents was filtered while
\* another series was already registered
C1_Witness ==
    /\ result.op = "extract"
    /\ ~result.raised
    /\ result.value.previous_meeting_path = None
    /\ Len(series_registry) = 2
    /\ series_registry[2].series_id = result.value.series_id
    /\ series_registry[2].meetings = <<>>
    /\ Len(result.value.filtered_documents) = 2
    /\ result.value.filtered_documents[2].change_type = "first_meeting"

\* the result of a call that compared the occurrence with a previous file
ComparedWithPrevious ==
    /\ result.op = "extract"
    /\ ~result.raised
    /\ result.value.previous_meeting_path # None

\* the previous file is the saved form of the documents of the call
SameDocumentsSaved ==
    \E m \in ExtractorMetadata :
        /\ m.start_time.form = "datetime"
        /\ result.previous_file = save_meeting_note(m, result.documents)

\* C2: when an occurrence is processed in a series whose previous occurrence
\* file holds exactly the same documents (same titles and same content), the
\* result has has_new_content = False or filtered_word_count = 0, for every
\* mix of document types in the occurrence.
C2_IdenticalNoNewContent ==
    (ComparedWithPrevious /\ SameDocumentsSaved) =>
        \/ ~result.value.has_new_content
        \/ result.value.filtered_word_count = 0

\* C2 restricted to occurrences whose documents are all classified Persistent
C2_IdenticalPersistentOnly ==
    (/\ ComparedWithPrevious
     /\ SameDocumentsSaved
     /\ \A d \in Range(classify_documents(result.documents)) :
            d.doc_type = "persistent") =>
        \/ ~result.value.has_new_content
        \/ result.value.filtered_word_count = 0

\* C3: when a previous occurrence exists, every current document classified
\* Ephemeral or Unknown appears in the result, in input order, with filtered
\* content equal to its full input content, whatever the previous occurrence
\* contained; only Persistent documents are reduced or dropped.
C3_NonPersistentInFull ==
    ComparedWithPrevious =>
        LET kept == SelectSeq(classify_documents(result.documents),
                              LAMBDA d : d.doc_type # "persistent")
            emitted == SelectSeq(result.value.filtered_documents,
                                 LAMBDA f : f.doc_type # "persistent")
        IN  /\ Len(emitted) = Len(kept)
            /\ \A i \in DOMAIN kept :
                   /\ emitted[i].doc_type = kept[i].doc_type
                   /\ emitted[i].original_url = kept[i].url
                   /\ emitted[i].filtered_content = kept[i].content

\* C3 happens: against a previous file the Unknown document of an occurrence
\* is emitted in full while its Persistent document is dropped
C3_Witness ==
    /\ ComparedWithPrevious
    /\ Len(result.documents) = 2
    /\ Len(result.value.filtered_documents) = 1
    /\ result.value.filtered_documents[1].doc_type = "unknown"
    /\ result.value.filtered_documents[1].filtered_content = result.documents[1].content
    /\ result.value.filtered_documents[1].filtered_content # <<>>

(***************************************************************************)
(* MeetingContentCache: properties.                                         *)
(***************************************************************************)
\* the (series_id, date) keys something was stored under
StoredKeys == {<<k[1], k[2]>> : k \in {x \in CacheSlots : cache_files[x].exists}}

\* the signature most recently stored under a stored key
LastStored(series_id, meeting_date) ==
    cache_files[CHOOSE k \in CacheSlots :
                    /\ k[1] = series_id /\ k[2] = meeting_date
                    /\ cache_files[k].exists /\ cache_files[k].newest].signature

RECURSIVE StoredDates(_, _)
\* the dates stored for a series from date d down, most recent first
StoredDates(series_id, d) ==
    IF d = 0 THEN <<>>
    ELSE (IF <<series_id, d>> \in StoredKeys THEN <<d>> ELSE <<>>)
         \o StoredDates(series_id, d - 1)

\* C7: store_content_signature(s, d, S) followed by get_content_signature(s, d)
\* returns a signature equal to S in every field, with the same sections in
\* the same order and the same paragraphs in the same order in each section.
C7_StoreThenGet ==
    [][(/\ cache_ret.op = "store"
        /\ cache_ret'.op = "get"
        /\ cache_ret'.series_id = cache_ret.series_id
        /\ cache_ret'.meeting_date = cache_ret.meeting_date) =>
          /\ cache_ret.value
          /\ ~cache_ret'.result.raised
          /\ cache_ret'.result.found
          /\ cache_ret'.result.value = cache_ret.signature]_vars

\* C7 happens: the signature with two sections and two paragraphs was read
\* back right after it was stored
C7_Witness ==
    /\ cache_ret.op = "get"
    /\ cache_ret.after_store
    /\ cache_ret.result.found
    /\ Len(cache_ret.result.value.sections) = 2
    /\ Len(cache_ret.result.value.sections[1].paragraphs) = 2
    /\ cache_ret.result.value.sections[1].paragraphs[1].hash = "p1"
    /\ cache_ret.result.value.sections[1].paragraphs[2].hash = "p0"

\* C8: after any sequence of store_content_signature calls, with
\* use_compression possibly changed between calls, the cache holds one record
\* per (series_id, date): get_cache_statistics counts one signature per
\* distinct stored key and get_content_signature returns the signature most
\* recently stored under the key.
C8_OneRecordPerKey ==
    /\ cache_ret.op = "statistics" =>
           cache_ret.value.total_signatures = Cardinality(StoredKeys)
    /\ (/\ cache_ret.op = "get"
        /\ <<cache_ret.series_id, cache_ret.meeting_date>> \in StoredKeys) =>
           /\ cache_ret.result.found
           /\ cache_ret.result.value =
                  LastStored(cache_ret.series_id, cache_ret.meeting_date)

\* the files were all written under the setting of use_compression in force
OneSetting ==
    \A k \in CacheSlots : cache_files[k].exists => cache_files[k].gz = use_compression

\* C8 while use_compression is never changed: the statement holds
C8_OneRecordPerKeyOneSetting == OneSetting => C8_OneRecordPerKey

\* C9: get_latest_signatures(series_id, limit) returns the signatures of the
\* min(limit, n) most recent dates stored for the series, by strictly
\* descending date, each date once, and no signature of another series.
C9_LatestSignatures ==
    cache_ret.op = "get_latest" =>
        LET dates == Slice(StoredDates(cache_ret.series_id, MaxCacheDate),
                           cache_ret.limit)
        IN  cache_ret.value =
                [i \in 1..Len(dates) |-> LastStored(cache_ret.series_id, dates[i])]

\* C9 while use_compression is never changed: the statement holds
C9_LatestSignaturesOneSetting == OneSetting => C9_LatestSignatures

\* the file get_content_signature reads for a stored key
FileRead(series_id, meeting_date) ==
    cache_files[Path(series_id, meeting_date, use_compression)]

RECURSIVE ValidOf(_, _, _)
\* the signatures of the undamaged files of the dates, in their order
ValidOf(series_id, dates, i) ==
    IF i > Len(dates) THEN <<>>
    ELSE (IF /\ FileRead(series_id, dates[i]).exists
             /\ FileRead(series_id, dates[i]).damage = "none"
          THEN <<FileRead(series_id, dates[i]).signature>> ELSE <<>>)
         \o ValidOf(series_id, dates, i + 1)

Compared == diff.op = "compare_meetings"
OldSignature == signatures[diff.old].signature
NewSignature == signatures[diff.new].signature

\* C11: for every signature S that create_content_signature can produce,
\* compare_meetings(S, S) reports 0 paragraphs added, 0 removed and 0
\* modified, no section change, and a similarity_percentage of at least 99.
C11_CompareWithItself ==
    (Compared /\ diff.old = diff.new) =>
        /\ diff.value.summary.total_paragraphs_added = 0
        /\ diff.value.summary.total_paragraphs_removed = 0
        /\ diff.value.summary.total_paragraphs_modified = 0
        /\ diff.value.section_changes = <<>>
        /\ AtLeast(diff.value.summary.similarity_percentage, <<99, 1>>)

\* no two sections of the signature carry the same header
DistinctHeaders(signature) ==
    \A i, j \in 1..Len(signature.sections) :
        signature.sections[i].header = signature.sections[j].header => i = j

\* C11 for signatures that hold words under headers that are all different:
\* the statement holds
C11_CompareWithItselfDistinctHeaders ==
    (/\ Compared
     /\ diff.old = diff.new
     /\ DistinctHeaders(OldSignature)
     /\ OldSignature.total_words > 0) => C11_CompareWithItself

\* the text of new is the text of old with one more list line at its end
ListLines == {<<"-", " ", "y">>,
              <<"-", " ", "B", "o", "b", " ", "t", "o", " ", "u", "p", "d", "a", "t", "e",
                " ", "A", "P", "I">>}
AppendsListLine(old, new) == \E line \in ListLines : new = old \o <<"\n">> \o line

\* C12: from the old text '# Action Items\n- Alice to review docs' and the new
\* text that appends the line '- Bob to update API' under the same header,
\* compare_meetings reports exactly 1 paragraph added, 0 paragraphs removed
\* and a similarity_percentage below 100; in general, appending one list line
\* to a section adds one paragraph and removes none.
C12_AppendListLine ==
    (/\ Compared
     /\ OldSignature.sections # <<>>
     /\ AppendsListLine(signatures[diff.old].text, signatures[diff.new].text)) =>
        /\ diff.value.summary.total_paragraphs_added = 1
        /\ diff.value.summary.total_paragraphs_removed = 0
        /\ (/\ signatures[diff.old].text = ActionItems
            /\ signatures[diff.new].text = ActionItemsMore) =>
               Less(diff.value.summary.similarity_percentage, <<100, 1>>)

\* the headers of a signature's sections that hold a paragraph with the hash
HeadersOfHash(signature, para_hash) ==
    {signature.sections[i].header : i \in
        {i \in 1..Len(signature.sections) :
            \E k \in 1..Len(signature.sections[i].paragraphs) :
                signature.sections[i].paragraphs[k].hash = para_hash}}

HeaderSet(signature) ==
    {signature.sections[i].header : i \in 1..Len(signature.sections)}

ParagraphHashes(signature) ==
    UNION {{signature.sections[i].paragraphs[k].hash :
               k \in 1..Len(signature.sections[i].paragraphs)} :
           i \in 1..Len(signature.sections)}

\* moved_paragraphs lists the paragraph as moved from header h1 to header h2
ListedAsMoved(para_hash, h1, h2) ==
    \E k \in 1..Len(diff.value.moved_paragraphs) :
        /\ diff.value.moved_paragraphs[k].change_type = "moved"
        /\ diff.value.moved_paragraphs[k].old_paragraph # <<>>
        /\ diff.value.moved_paragraphs[k].old_paragraph[1].hash = para_hash
        /\ diff.value.moved_paragraphs[k].new_paragraph # <<>>
        /\ diff.value.moved_paragraphs[k].new_paragraph[1].hash = para_hash
        /\ diff.value.moved_paragraphs[k].old_section = h1
        /\ diff.value.moved_paragraphs[k].new_section = h2
        /\ diff.value.moved_paragraphs[k].similarity_score = <<1, 1>>

SectionReported(change_type, header) ==
    \E k \in 1..Len(diff.value.section_changes) :
        /\ diff.value.section_changes[k].change_type = change_type
        /\ IF change_type = "removed"
           THEN /\ diff.value.section_changes[k].old_section # <<>>
                /\ diff.value.section_changes[k].old_section[1].header = header
                /\ diff.value.section_changes[k].new_section = <<>>
           ELSE /\ diff.value.section_changes[k].new_section # <<>>
                /\ diff.value.section_changes[k].new_section[1].header = header
                /\ diff.value.section_changes[k].old_section = <<>>

\* C13: when a paragraph hash occurs in the old signature only under header H1
\* and in the new signature only under a different header H2, compare_meetings
\* lists that paragraph in moved_paragraphs with old_section = H1,
\* new_section = H2 and similarity 1.0; when H1 is absent from new and H2
\* absent from old, section H1 is reported REMOVED and section H2 ADDED.
C13_MovedParagraph ==
    Compared =>
        \A para_hash \in ParagraphHashes(OldSignature) \cap ParagraphHashes(NewSignature) :
            \A h1 \in HeaderSet(OldSignature), h2 \in HeaderSet(NewSignature) :
                (/\ h1 # h2
                 /\ HeadersOfHash(OldSignature, para_hash) = {h1}
                 /\ HeadersOfHash(NewSignature, para_hash) = {h2}) =>
                    /\ ListedAsMoved(para_hash, h1, h2)
                    /\ (h1 \notin HeaderSet(NewSignature) /\ h2 \notin HeaderSet(OldSignature)) =>
                           /\ SectionReported("removed", h1)
                           /\ SectionReported("added", h2)

\* C13 happens: the paragraph '- x' of section A was compared with the same
\* paragraph under section B, the only section of the new text
C13_Witness ==
    /\ Compared
    /\ signatures[diff.old].text = ListUnderA
    /\ signatures[diff.new].text = ListUnderB
    /\ Len(diff.value.moved_paragraphs) = 1
    /\ diff.value.summary.total_sections_removed = 1
    /\ diff.value.summary.total_sections_added = 1

\* the signature of a text without content
EmptySignature(signature) ==
    /\ signature.sections = <<>>
    /\ signature.total_paragraphs = 0
    /\ signature.total_words = 0

NothingRemoved ==
    /\ diff.value.summary.total_sections_removed = 0
    /\ diff.value.summary.total_paragraphs_removed = 0
    /\ diff.value.summary.total_words_removed = 0

NothingAdded ==
    /\ diff.value.summary.total_sections_added = 0
    /\ diff.value.summary.total_paragraphs_added = 0
    /\ diff.value.summary.total_words_added = 0

NothingModified ==
    /\ diff.value.summary.total_sections_modified = 0
    /\ diff.value.summary.total_paragraphs_modified = 0

\* C14: comparing an empty signature E with any signature S reports
\* everything as added: compare_meetings(E, S) has total_sections_added equal
\* to the number of sections of S, total_paragraphs_added = S.total_paragraphs,
\* total_words_added = S.total_words and nothing removed or modified;
\* compare_meetings(S, E) reports the same numbers as removed.
C14_EmptySignature ==
    /\ (Compared /\ EmptySignature(OldSignature)) =>
           /\ diff.value.summary.total_sections_added = Len(NewSignature.sections)
           /\ diff.value.summary.total_paragraphs_added = NewSignature.total_paragraphs
           /\ diff.value.summary.total_words_added = NewSignature.total_words
           /\ NothingRemoved
           /\ NothingModified
    /\ (Compared /\ EmptySignature(NewSignature)) =>
           /\ diff.value.summary.total_sections_removed = Len(OldSignature.sections)
           /\ diff.value.summary.total_paragraphs_removed = OldSignature.total_paragraphs
           /\ diff.value.summary.total_words_removed = OldSignature.total_words
           /\ NothingAdded
           /\ NothingModified

\* C14 for signatures whose headers are all different: the statement holds
C14_EmptySignatureDistinctHeaders ==
    (/\ Compared
     /\ DistinctHeaders(OldSignature)
     /\ DistinctHeaders(NewSignature)) => C14_EmptySignature

\* a text up to letter case, leading and trailing whitespace and the length
\* of the whitespace runs inside its lines
Canon(text) ==
    LET lines == SplitLines(Strip(text))
    IN  Lower(JoinLines([i \in 1..Len(lines) |-> Strip(CollapseWhitespace(lines[i]))]))

\* the hashes of a signature: full content, section headers, paragraphs
Hashes(signature) ==
    [full_content_hash |-> signature.full_content_hash,
     sections |-> [i \in 1..Len(signature.sections) |->
                      [header_hash |-> signature.sections[i].header_hash,
                       paragraphs |-> [k \in 1..Len(signature.sections[i].paragraphs) |->
                                          signature.sections[i].paragraphs[k].hash]]]]

\* C18: two input texts that differ only in letter case or in whitespace
\* (leading, trailing, or the length of whitespace runs inside a line)
\* produce, through create_content_signature, signatures with the same
\* full_content_hash, the same section header hashes and the same paragraph
\* hashes.
C18_CaseAndWhitespace ==
    Canon(signatures.old.text) = Canon(signatures.new.text) =>
        Hashes(signatures.old.signature) = Hashes(signatures.new.signature)

\* C18 for the full content hash of texts equal after trim and lower-case:
\* the statement holds
C18_FullContentHashTrimLower ==
    Lower(Strip(signatures.old.text)) = Lower(Strip(signatures.new.text)) =>
        signatures.old.signature.full_content_hash =
            signatures.new.signature.full_content_hash

(***************************************************************************)
(* DocumentClassifier: properties.                                         *)
(***************************************************************************)
Classifying == classified.op = "classify_document"
EphemeralScore == classified.scores[1]
PersistentScore == classified.scores[2]

\* the aggregate score of the DocumentType returned
WinnerScore ==
    IF classified.value[1] = "ephemeral" THEN EphemeralScore ELSE PersistentScore

LoserScore ==
    IF classified.value[1] = "ephemeral" THEN PersistentScore ELSE EphemeralScore

GeminiMarker == <<"m", "e", "e", "t", "_", "t", "n", "f", "m", "_",
                  "c", "a", "l", "e", "n", "d", "a", "r">>

\* title and content match no Ephemeral or Persistent pattern, and the
\* metadata carries no hint
NoPatternMatches ==
    /\ _score_patterns(Lower(classified.title), ephemeral_patterns) = 0
    /\ _score_patterns(Lower(classified.title), persistent_patterns) = 0
    /\ _score_content_indicators(Lower(classified.content),
                                 ephemeral_content_indicators) = 0
    /\ _score_content_indicators(Lower(classified.content),
                                 persistent_content_indicators) = 0
    /\ classified.metadata = PlainMetadata

\* the URL is an editable document URL
EditableUrl == Contains(Lower(classified.url), <<"e", "d", "i", "t">>)

\* the URL carries a Gemini, transcript or recording marker
MarkedUrl ==
    \/ Contains(Lower(classified.url), GeminiMarker)
    \/ Contains(Lower(classified.url), <<"t", "r", "a", "n", "s", "c", "r", "i", "p", "t">>)
    \/ Contains(Lower(classified.url), <<"r", "e", "c", "o", "r", "d", "i", "n", "g">>)

\* C20: a document whose title and content match no Ephemeral or Persistent
\* pattern and whose URL is a plain editable document URL (contains 'edit',
\* carries no Gemini, transcript or recording marker) is classified Unknown,
\* while the same document with the Gemini calendar marker in its URL is
\* classified Ephemeral.
C20_PlainEditableUrl ==
    (Classifying /\ NoPatternMatches /\ EditableUrl) =>
        /\ ~MarkedUrl => classified.value[1] = "unknown"
        /\ Contains(Lower(classified.url), GeminiMarker) =>
               classified.value[1] = "ephemeral"

\* C20 for the URL with the Gemini calendar marker: the statement holds
C20_GeminiUrl ==
    (/\ Classifying
     /\ NoPatternMatches
     /\ EditableUrl
     /\ Contains(Lower(classified.url), GeminiMarker)) =>
        classified.value[1] = "ephemeral"

(***************************************************************************)
(* Two tracker instances: properties.                                      *)
(***************************************************************************)
\* the step is a mutation by instance t that saved the registry
SavedBy(t) ==
    /\ ret'.op \in {"create_new_series", "add_meeting_to_series"}
    /\ ret'.tracker = t
    /\ ret'.saved

\* the meeting references a registry holds, as <<series_id, path>>
References(registry) ==
    UNION {{<<registry[i].series_id, registry[i].meetings[k]>> :
               k \in 1..Len(registry[i].meetings)} : i \in DOMAIN registry}

\* C17: the registry has no internal locking or merge: when two tracker
\* instances opened on the same notes directory each load the registry and
\* then each mutate it (create a series or register a meeting) without
\* external serialization, the persisted registry after both writes is the
\* last writer's in-memory copy and the other writer's update is lost; when
\* all mutations go through one instance none is lost.
C17_LastWriterWins ==
    [][\A t \in Trackers : SavedBy(t) =>
          /\ _load_series_registry(registry_file') = instances'[t].registry
          /\ \A sid \in Keys(_load_series_registry(registry_file)) :
                 sid \notin Keys(instances'[t].registry) =>
                     sid \notin Keys(_load_series_registry(registry_file'))
          /\ \A ref \in References(_load_series_registry(registry_file)) :
                 ref \notin References(instances'[t].registry) =>
                     ref \notin References(_load_series_registry(registry_file'))
          /\ (\A u \in Trackers \ {t} : ~instances[u].wrote) =>
                 _load_series_registry(registry_file) = instances[t].registry]_vars

\* C17 happens: both instances were opened on the empty directory, t1 created
\* a series and then t2 created another one: the file holds the copy of t2
\* and not the series of t1
C17_Witness ==
    /\ ret.op = "create_new_series"
    /\ ret.tracker = "t2"
    /\ instances["t1"].wrote
    /\ instances["t2"].wrote
    /\ _load_series_registry(registry_file) = instances["t2"].registry
    /\ \E sid \in Keys(instances["t1"].registry) :
           sid \notin Keys(_load_series_registry(registry_file))

\* C17 happens with one writer: t1 created a series and registered a meeting
\* in it while t2 never wrote; the file holds both
C17_WitnessOneWriter ==
    /\ ret.op = "add_meeting_to_series"
    /\ ret.tracker = "t1"
    /\ ret.saved
    /\ ~instances["t2"].wrote
    /\ References(_load_series_registry(registry_file)) # {}
    /\ _load_series_registry(registry_file) = instances["t1"].registry

(***************************************************************************)
(* SmartContentExtractor: properties of an occurrence without prior data.  *)
(***************************************************************************)
\* the matched series had no usable previous occurrence when the call was made
NoPriorData ==
    /\ result.op = "extract"
    /\ result.previous \in {"no reference", "missing", "unreadable"}

\* every input document is emitted with its whole content, in order
EmittedInFull(documents, value) ==
    /\ Len(value.filtered_documents) = Len(documents)
    /\ \A i \in DOMAIN documents :
           value.filtered_documents[i].filtered_content = documents[i].content
    /\ value.filtered_word_count = value.original_word_count

\* C15: when the occurrence matches a series that has no usable previous
\* occurrence (no meeting reference, a reference whose file is missing, or a
\* file that cannot be read), extract_new_content_only returns a result in
\* which every input document is emitted in full and filtered_word_count
\* equals original_word_count.
C15_NoPriorDataInFull ==
    NoPriorData =>
        /\ ~result.raised
        /\ EmittedInFull(result.documents, result.value)

\* C15 for occurrences whose start_time is a datetime object: the content is
\* emitted in full
C15_NoPriorDataInFullDatetime ==
    (NoPriorData /\ result.meeting_metadata.start_time.form = "datetime") =>
        /\ ~result.raised
        /\ EmittedInFull(result.documents, result.value)

(***************************************************************************)
(* SmartContentExtractor: properties of _extract_persistent_doc_changes.   *)
(***************************************************************************)
PersistentCall == result.op = "_extract_persistent_doc_changes"

\* the previous documents whose URL equals the current document's
EqualUrl(current_doc, previous_docs) ==
    {i \in DOMAIN previous_docs : previous_docs[i].url = current_doc.url}

TitleSimilarity(current_doc, previous_doc) ==
    extractor_calculate_title_similarity(current_doc.title, previous_doc.title)

\* the previous documents no other previous document is more similar than
HighestTitleSimilarity(current_doc, previous_docs) ==
    {i \in DOMAIN previous_docs :
        \A j \in DOMAIN previous_docs :
            AtLeast(TitleSimilarity(current_doc, previous_docs[i]),
                    TitleSimilarity(current_doc, previous_docs[j]))}

\* the document is emitted whole, as a new document
EmittedAsNew(current_doc, value) ==
    /\ Len(value) = 1
    /\ value[1].filtered_content = current_doc.content
    /\ value[1].change_type = "new_document"

\* the counterpart rule, Accepted telling which title similarities qualify
CounterpartRule(current_doc, previous_docs, previous_doc, value, Accepted(_)) ==
    LET urls == EqualUrl(current_doc, previous_docs)
        titles == {i \in HighestTitleSimilarity(current_doc, previous_docs) :
                      Accepted(TitleSimilarity(current_doc, previous_docs[i]))}
    IN  /\ urls # {} =>
               /\ previous_doc \in urls
               /\ \A i \in urls : previous_doc <= i
        /\ (urls = {} /\ titles # {}) => previous_doc \in titles
        /\ (urls = {} /\ titles = {}) => previous_doc = 0
        /\ previous_doc = 0 => EmittedAsNew(current_doc, value)

AtLeast07(similarity) == AtLeast(similarity, <<7, 10>>)
Above07(similarity) == Greater(similarity, <<7, 10>>)

\* C21: the previous counterpart of a Persistent document is the first
\* previous document with an equal URL if there is one; otherwise the previous
\* document with the highest title similarity when that similarity is at
\* least 0.7, exactly 0.7 included; when neither exists the document is
\* treated as new and emitted in full.
C21_PreviousCounterpart ==
    PersistentCall =>
        CounterpartRule(result.current_doc, result.previous_docs,
                        result.previous_doc, result.value, AtLeast07)

\* C21 with title similarities accepted only above 0.7: the rule holds
C21_PreviousCounterpartAbove07 ==
    PersistentCall =>
        CounterpartRule(result.current_doc, result.previous_docs,
                        result.previous_doc, result.value, Above07)

\* the hashes of a section's paragraphs
HashesIn(section) ==
    {section.paragraphs[k].hash : k \in 1..Len(section.paragraphs)}

\* the paragraph changes of the sections present in both signatures whose new
\* paragraph is an exact match of an old paragraph of the section
ExactMatchReported(change_types) ==
    {<<k, n>> \in
        UNION {{<<k, n>> : n \in 1..Len(diff.value.section_changes[k].paragraph_changes)} :
               k \in {k \in 1..Len(diff.value.section_changes) :
                         diff.value.section_changes[k].change_type = "modified"}} :
        LET change == diff.value.section_changes[k]
            para == change.paragraph_changes[n]
        IN  /\ para.change_type \in change_types
            /\ para.new_paragraph # <<>>
            /\ para.new_paragraph[1].hash \in HashesIn(change.old_section[1])}

\* C22: within a section present in both signatures, a new paragraph whose
\* hash equals the hash of some old paragraph of that section is unchanged: it
\* is neither the new side of a MODIFIED change nor an ADDED change of that
\* section, whatever the order of the old paragraphs.
C22_ExactMatchUnchanged ==
    Compared => ExactMatchReported({"modified", "added"}) = {}

\* C22 for ADDED changes alone: an exact match is never reported as added
C22_ExactMatchNeverAdded ==
    Compared => ExactMatchReported({"added"}) = {}

\* the hashes compare_meetings reports in moved_paragraphs
MovedHashes ==
    {diff.value.moved_paragraphs[k].old_paragraph[1].hash :
        k \in 1..Len(diff.value.moved_paragraphs)}

\* the paragraphs of a sequence whose hash is not excluded
Kept(paragraphs, excluded) ==
    Pick(paragraphs, {k \in 1..Len(paragraphs) : paragraphs[k].hash \notin excluded})

WordsOf(paragraphs) ==
    SumSeq([k \in 1..Len(paragraphs) |-> paragraphs[k].word_count])

\* the paragraphs a section change reports as added (side "new") or removed
\* (side "old"), those with an excluded hash left out
Reported(change, side, excluded) ==
    LET change_type == IF side = "new" THEN "added" ELSE "removed"
        section == IF side = "new" THEN change.new_section ELSE change.old_section
        paragraph(c) == IF side = "new" THEN c.new_paragraph ELSE c.old_paragraph
    IN  IF change.change_type = change_type THEN Kept(section[1].paragraphs, excluded)
        ELSE IF change.change_type = "modified"
        THEN Kept(Concat([n \in 1..Len(change.paragraph_changes) |->
                             IF change.paragraph_changes[n].change_type = change_type
                             THEN paragraph(change.paragraph_changes[n])
                             ELSE <<>>]),
                  excluded)
        ELSE <<>>

\* the word difference of the MODIFIED paragraph changes of a section change
WordDifference(change, side) ==
    SumSeq([n \in 1..Len(change.paragraph_changes) |->
               LET c == change.paragraph_changes[n]
                   word_diff == IF c.change_type = "modified"
                                THEN c.new_paragraph[1].word_count
                                         - c.old_paragraph[1].word_count
                                ELSE 0
               IN  IF side = "new" THEN (IF word_diff > 0 THEN word_diff ELSE 0)
                   ELSE (IF word_diff > 0 THEN 0 ELSE 0 - word_diff)])

\* the summary tallies the added and removed paragraphs and their words with
\* the excluded hashes left out
TalliesWithout(excluded) ==
    LET changes == diff.value.section_changes
        paragraphs(side) ==
            SumSeq([k \in 1..Len(changes) |-> Len(Reported(changes[k], side, excluded))])
        words(side) ==
            SumSeq([k \in 1..Len(changes) |->
                       WordsOf(Reported(changes[k], side, excluded))
                       + WordDifference(changes[k], side)])
    IN  /\ diff.value.summary.total_paragraphs_added = paragraphs("new")
        /\ diff.value.summary.total_paragraphs_removed = paragraphs("old")
        /\ diff.value.summary.total_words_added = words("new")
        /\ diff.value.summary.total_words_removed = words("old")

\* C23: a paragraph that compare_meetings reports in moved_paragraphs is not
\* counted in the summary's total_paragraphs_added or
\* total_paragraphs_removed, and its words are not counted in
\* total_words_added or total_words_removed.
C23_MovedNotCounted ==
    Compared => TalliesWithout(MovedHashes)

\* what the summary holds instead: every added and removed paragraph is
\* counted, the moved ones included, and the moved ones are counted once more
\* in total_paragraphs_moved
C23_MovedCountedTwice ==
    Compared =>
        /\ TalliesWithout({})
        /\ diff.value.summary.total_paragraphs_moved = Len(diff.value.moved_paragraphs)

\* the current sections that have no matching previous section or whose
\* content similarity to the matched previous section is below 0.7
RetainedSections(current_sections, previous_sections) ==
    {i \in 1..Len(current_sections) :
        LET m == _find_matching_section(current_sections[i], previous_sections)
        IN  \/ m = 0
            \/ Less(_calculate_content_similarity(current_sections[i].content,
                                                  previous_sections[m].content),
                    <<7, 10>>)}

\* the content built from the retained sections of the current document
RetainedContent(current_doc, previous_doc) ==
    LET current_sections == _parse_content_sections(current_doc.content)
    IN  _build_filtered_content(
            Pick(current_sections,
                 RetainedSections(current_sections,
                                  _parse_content_sections(previous_doc.content))))

\* C24: for a Persistent document with a matched previous counterpart, the
\* emitted content is built from exactly the current sections that have no
\* matching previous section or whose content similarity to the matched
\* previous section is below 0.7, in document order; the document is emitted
\* only when that content has at least 10 words, and otherwise contributes
\* no document and no words.
C24_RetainedSections ==
    (PersistentCall /\ result.previous_doc # 0) =>
        LET content == RetainedContent(result.current_doc,
                                       result.previous_docs[result.previous_doc])
        IN  IF WordCount(content) >= 10
            THEN /\ Len(result.value) = 1
                 /\ result.value[1].filtered_content = content
                 /\ result.value[1].original_url = result.current_doc.url
            ELSE result.value = <<>>

\* C24 happens: of the two sections of the current document the second, new
\* and twelve words long with its header, is emitted and the first, unchanged,
\* is not
C24_Witness ==
    /\ PersistentCall
    /\ result.previous_doc # 0
    /\ result.current_doc.content = TwoSectionsLong
    /\ result.previous_docs[result.previous_doc].content = OneSection
    /\ Len(result.value) = 1
    /\ WordCount(result.value[1].filtered_content) = 12
    /\ Len(_parse_content_sections(result.value[1].filtered_content)) = 1

(***************************************************************************)
(* SmartContentExtractor: properties of the saved meeting files.           *)
(***************************************************************************)
\* the meetings and notes the save layer writes, each with its file and with
\* the documents _extract_documents_from_meeting splits from the loaded file
SavedNotes ==
    {[meeting |-> m, notes |-> o, file |-> save_meeting_note(m, o),
      documents |->
          _extract_documents_from_meeting(_load_meeting_file(save_meeting_note(m, o)))] :
        m \in {x \in ExtractorMetadata : x.start_time.form = "datetime"},
        o \in Occurrences}

\* the saved notes a file of the notes directory holds
SavedIn(path) ==
    IF files[path] = NoFile THEN {}
    ELSE {e \in SavedNotes : files[path] = e.file}

\* the split documents carry the fields of the saved notes, one for one
Recovers(e, fields) ==
    /\ Len(e.documents) = Len(e.notes)
    /\ \A i \in DOMAIN e.notes : \A f \in fields : e.documents[i][f] = e.notes[i][f]

\* C25: splitting a meeting file written by the save layer recovers the
\* documents that were saved: for a meeting saved with n documents (n >= 1),
\* _extract_documents_from_meeting applied to the loaded file returns exactly
\* n records in saved order, each with the title, the URL and the content of
\* the corresponding saved document.
C25_SplitRecoversSaved ==
    \A path \in DOMAIN files :
        \A e \in SavedIn(path) : Recovers(e, {"title", "url", "content"})

\* what is recovered: of a meeting saved with two documents or more, the
\* titles and the contents, in saved order
C25_SplitRecoversTitleAndContent ==
    \A path \in DOMAIN files :
        \A e \in SavedIn(path) :
            Len(e.notes) >= 2 => Recovers(e, {"title", "content"})

\* positions count from 0 without a gap, in list order
DensePositions(items) == \A i \in 1..Len(items) : items[i].position = i - 1

\* C26: in every signature built by create_content_signature, section
\* positions are exactly 0..n-1 in list order, paragraph positions inside each
\* section are exactly 0..m-1 in list order, every section has at least one
\* paragraph, every paragraph has at least one word, total_paragraphs is the
\* sum of the sections' paragraph counts and total_words the sum of the
\* paragraphs' word counts; empty input gives zero sections, zero paragraphs
\* and zero words.
C26_SignatureShape ==
    \A slot \in Sides :
        LET signature == signatures[slot].signature
            sections == signature.sections
        IN  /\ DensePositions(sections)
            /\ \A i \in 1..Len(sections) :
                   /\ sections[i].paragraphs # <<>>
                   /\ DensePositions(sections[i].paragraphs)
                   /\ \A k \in 1..Len(sections[i].paragraphs) :
                          sections[i].paragraphs[k].word_count >= 1
            /\ signature.total_paragraphs =
                   SumSeq([i \in 1..Len(sections) |-> Len(sections[i].paragraphs)])
            /\ signature.total_words =
                   SumSeq([i \in 1..Len(sections) |->
                              WordsOf(sections[i].paragraphs)])
            /\ signatures[slot].text = <<>> =>
                   /\ sections = <<>>
                   /\ signature.total_paragraphs = 0
                   /\ signature.total_words = 0

\* C26 happens: a signature with two paragraphs in one section was built, and
\* one of a text whose first header has nothing under it, so that the only
\* section kept is the second one
C26_Witness ==
    /\ diff.op = "create_content_signature"
    /\ Len(signatures["old"].signature.sections) = 1
    /\ Len(signatures["old"].signature.sections[1].paragraphs) = 2
    /\ signatures["new"].text = HeaderOnly
    /\ Len(signatures["new"].signature.sections) = 1
    /\ signatures["new"].signature.sections[1].header = <<"B">>

(***************************************************************************)
(* GoogleMeetFetcher: properties of process_meeting_notes.                 *)
(***************************************************************************)
FetcherCall == result.op = "process_meeting_notes"

\* the occurrence was filtered, had new content and its file was saved
SavedWithNewContent ==
    /\ FetcherCall
    /\ result.filtered
    /\ result.value.has_new_content
    /\ result.saved

\* the registry file holds the series of the occurrence with the reference
\* registered for it
ReferencePersisted ==
    \E i \in DOMAIN _load_series_registry(registry_file) :
        /\ _load_series_registry(registry_file)[i].series_id = result.value.series_id
        /\ result.registered \in Range(_load_series_registry(registry_file)[i].meetings)

\* C27: after process_meeting_notes finishes for an occurrence with smart
\* filtering, new content found and the file saved, the persisted registry
\* holds the series with the meeting reference registered for the occurrence:
\* the save step on the fetcher's own tracker does not overwrite or drop what
\* the extractor's tracker wrote.
C27_ReferencePersisted == SavedWithNewContent => ReferencePersisted

\* what holds instead: the reference is persisted when the fetcher's own
\* tracker held the series before the save step, and is dropped, the series
\* left without references, when it did not
C27_ReferencePersistedWhenKnown ==
    SavedWithNewContent =>
        /\ result.known => ReferencePersisted
        /\ ~result.known =>
               \E i \in DOMAIN _load_series_registry(registry_file) :
                   /\ _load_series_registry(registry_file)[i].series_id
                          = result.value.series_id
                   /\ _load_series_registry(registry_file)[i].meetings = <<>>

\* the sections of the Persistent documents of the occurrence that the
\* document of the same URL held unchanged in the preceding occurrence of
\* the series, and that were emitted for the series before
UnchangedSections ==
    UNION {{<<result.documents[i].url, s[1], s[2]>> :
               s \in {x \in SectionsOf(result.documents[i].content) :
                         \E k \in DOMAIN result.preceding :
                             /\ result.preceding[k].url = result.documents[i].url
                             /\ x \in SectionsOf(result.preceding[k].content)}} :
              i \in {k \in DOMAIN result.documents :
                        Classified(result.documents)[k].doc_type = "persistent"}}
        \cap result.emitted_before

\* C28: over the successive occurrences of a series processed with smart
\* filtering, each saved file holding the filtered output of its occurrence,
\* a section of a Persistent document whose content is unchanged from the
\* preceding occurrence's document is never emitted again: once emitted, a
\* section is emitted again only after its content changes.
C28_UnchangedNotEmittedAgain ==
    (FetcherCall /\ result.filtered) =>
        UnchangedSections \cap EmittedSections(result.notes) = {}

\* the Persistent documents of the occurrence that hold no markdown header
Headerless ==
    {i \in DOMAIN result.documents :
        /\ Classified(result.documents)[i].doc_type = "persistent"
        /\ \A line \in Range(SplitLines(result.documents[i].content)) :
               HeaderMatch(line).level = 0}

\* C29: every FilteringResult returned by extract_new_content_only has
\* 0 <= filtered_word_count <= original_word_count, so that
\* content_reduction_percentage lies within [0, 100], also for a Persistent
\* document without markdown headers.
C29_WordCountsOrdered ==
    (FetcherCall /\ result.filtered) =>
        /\ 0 <= result.value.filtered_word_count
        /\ result.value.filtered_word_count <= result.value.original_word_count
        /\ 0 <= result.value.content_reduction_percentage[1]
        /\ result.value.content_reduction_percentage[1]
               <= 100 * result.value.content_reduction_percentage[2]

\* what holds instead: the filtered words exceed the original ones by at most
\* the two words of the "# Content" header that each headerless Persistent
\* document is given
C29_WordCountsWithContentHeader ==
    (FetcherCall /\ result.filtered) =>
        /\ 0 <= result.value.filtered_word_count
        /\ result.value.filtered_word_count
               <= result.value.original_word_count + 2 * Cardinality(Headerless)

(***************************************************************************)
(* SmartContentExtractor: properties of an occurrence of a known series.   *)
(***************************************************************************)
\* the occurrence matched a registered series when the call was made
KnownSeries ==
    /\ result.op = "extract"
    /\ result.previous # "no series"

\* C30: identify_series accepts the metadata forms create_new_series accepts:
\* for an occurrence that matches a registered series, with start_time an
\* ISO-format string as with a datetime, it returns the series without
\* raising, so that a second extract_new_content_only call with the same
\* string-timestamped metadata completes and returns the series the first
\* call created.
C30_KnownSeriesReturned ==
    KnownSeries =>
        /\ ~result.raised
        /\ result.value.series_id
               = SeriesOf(series_registry, result.meeting_metadata)

\* C30 for occurrences whose start_time is a datetime object: the series is
\* returned
C30_KnownSeriesReturnedDatetime ==
    (KnownSeries /\ result.meeting_metadata.start_time.form = "datetime") =>
        /\ ~result.raised
        /\ result.value.series_id
               = SeriesOf(series_registry, result.meeting_metadata)

\* for occurrences whose start_time is a string the call raises, whatever
\* the series holds
C30_KnownSeriesRaisesStr ==
    (KnownSeries /\ result.meeting_metadata.start_time.form = "str") =>
        result.raised

====
